---- MODULE Spec2Model ----
(***************************************************************************)
(* Document Investigator: the Burr workflow of state_machine.py, wired to  *)
(* DocumentProcessor (documents.py), GeminiService (services.py) and       *)
(* DatabaseManager (database.py), with several workflow instances sharing  *)
(* one SQLite database.                                                    *)
(*                                                                         *)
(* Python str values are sequences of one-character strings, so that       *)
(* lower(), strip(), "in" and concatenation are computed, not assumed.     *)
(* Optional[T] is a sequence of length <= 1: None == <<>>, Some(v) == <<v>>.*)
(***************************************************************************)
EXTENDS Integers, Sequences, FiniteSets

(* ------------------------------ bounds -------------------------------- *)

\* number of workflow instances (build_application calls) sharing the database
NumRequests == 2

Requests == 1..NumRequests

(* --------------------------- Python helpers --------------------------- *)

None == <<>>

Some(v) == <<v>>

IsNone(o) == Len(o) = 0

Get(o) == o[1]

UPPER == <<"A","B","C","D","E","F","G","H","I","J","K","L","M","N","O","P","Q","R","S","T","U",
           "V","W","X","Y","Z">>

LOWER == <<"a","b","c","d","e","f","g","h","i","j","k","l","m","n","o","p","q","r","s","t","u",
           "v","w","x","y","z">>

WHITESPACE == {" ", "\t", "\n", "\r", "\f"}

\* str.lower() on one character
LowerChar(c) ==
    IF \E i \in 1..26 : UPPER[i] = c
    THEN LOWER[CHOOSE i \in 1..26 : UPPER[i] = c]
    ELSE c

\* str.lower()
Lower(s) == [i \in 1..Len(s) |-> LowerChar(s[i])]

\* sub in s
Contains(s, sub) ==
    \E i \in 1..(Len(s) - Len(sub) + 1) : SubSeq(s, i, i + Len(sub) - 1) = sub

\* str.strip()
Strip(s) ==
    LET keep == {i \in 1..Len(s) : s[i] \notin WHITESPACE}
    IN  IF keep = {} THEN <<>>
        ELSE SubSeq(s, CHOOSE i \in keep : \A j \in keep : i <= j,
                       CHOOSE i \in keep : \A j \in keep : j <= i)

\* "sep".join(parts)
RECURSIVE Join(_, _)
Join(sep, parts) ==
    IF Len(parts) = 0 THEN <<>>
    ELSE IF Len(parts) = 1 THEN parts[1]
    ELSE parts[1] \o sep \o Join(sep, Tail(parts))

\* index of the last occurrence of character c in s, 0 if none (str.rfind + 1)
RFind(s, c) ==
    LET at == {i \in 1..Len(s) : s[i] = c}
    IN  IF at = {} THEN 0 ELSE CHOOSE i \in at : \A j \in at : j <= i

\* os.path.basename
Basename(path) == SubSeq(path, RFind(path, "/") + 1, Len(path))

\* os.path.splitext(path)[1]: from the last dot of the last component, unless
\* that component has only leading dots before it
SplitextExt(path) ==
    LET sep == RFind(path, "/")
        dot == RFind(path, ".")
    IN  IF dot > sep /\ (\E i \in (sep + 1)..(dot - 1) : path[i] # ".")
        THEN SubSeq(path, dot, Len(path))
        ELSE <<>>

(* ------------------------------ config.py ----------------------------- *)

LLM_MODEL_NAME ==
    <<"g","e","m","i","n","i","-","2",".","5","-","p","r","o">>

UNKNOWN_ANSWER ==
    <<"Y","o","u","r"," ","r","e","q","u","e","s","t"," ","i","s"," ","u","n","k","n","o","w",
      "n",","," ","a","s","s","o","c","i","a","t","e","d"," ","i","n","f","o","r","m","a","t",
      "i","o","n"," ","i","s"," ","n","o","t"," ","a","v","a","i","l","a","b","l","e","."," ",
      "P","l","e","a","s","e"," ","t","r","y"," ","a","g","a","i","n","!">>

NOT_ALLOWED_ANSWER ==
    <<"S","o","r","r","y",","," ","y","o","u","r"," ","t","a","s","k"," ","i","s"," ","n","o",
      "t"," ","a","l","l","o","w","e","d","."," ","P","l","e","a","s","e"," ","t","r","y"," ",
      "a","g","a","i","n","!">>

NO_REASON_GIVEN ==
    <<"n","o"," ","r","e","a","s","o","n"," ","g","i","v","e","n">>

MAX_CONTEXT_CHARACTERS == 800000

SUPPORTED_FILE_TYPES == {<<".","p","d","f">>, <<".","d","o","c","x">>, <<".","t","x","t">>,
                         <<".","x","l","s","x">>}

\* the attributes a Config instance has (frozen dataclass: no others can be added)
ConfigFields ==
    {"DB_FILE", "LLM_MODEL_NAME", "TEMPERATURE", "TOP_P", "MAX_CONTEXT_CHARACTERS",
     "UNKNOWN_ANSWER", "NOT_ALLOWED_ANSWER", "NO_REASON_GIVEN", "SUPPORTED_FILE_TYPES",
     "MAX_LOG_FILES"}

(* ----------------------------- documents.py --------------------------- *)

\* uploaded file objects (their .name is the path) used as inputs
FILE_TXT ==
    <<"/","t","m","p","/","a",".","t","x","t">>

FILE_PNG ==
    <<"/","t","m","p","/","p",".","p","n","g">>

\* what the file on disk holds when it can be read
FILE_CONTENT ==
    <<"R","e","v","e","n","u","e"," ","w","a","s"," ","5",".">>

CONTENT_HEADER ==
    <<"-","-","-"," ","C","O","N","T","E","N","T"," ","F","R","O","M"," ">>

CONTENT_HEADER_END ==
    <<" ","-","-","-","\n">>

FILE_SEPARATOR ==
    <<"\n","\n">>

NAME_SEPARATOR ==
    <<","," ">>

TXT_NOT_FOUND_MSG ==
    <<"[","E","r","r","o","r",":"," ","F","i","l","e"," ","n","o","t"," ","f","o","u","n","d",
      ":"," ">>

TXT_IO_ERROR_MSG ==
    <<"[","E","r","r","o","r"," ","r","e","a","d"," ","p","r","o","c","e","s","s","i","n","g",
      " ","T","X","T",":"," ">>

TXT_UNEXPECTED_MSG ==
    <<"[","E","r","r","o","r",":"," ","A","n"," ","u","n","e","x","p","e","c","t","e","d"," ",
      "i","s","s","u","e"," ","o","c","c","u","r","r","e","d"," ","w","i","t","h"," ">>

UNSUPPORTED_PRE ==
    <<"U","n","s","u","p","p","o","r","t","e","d"," ","f","i","l","e"," ","t","y","p","e",":",
      " ","'">>

UNSUPPORTED_MID ==
    <<"'"," ","i","n"," ","f","i","l","e"," ","'">>

UNSUPPORTED_END ==
    <<"'",".">>

\* how opening and reading one file ends in the runs explored
LoadOutcomes == {"ok", "FileNotFoundError"}

\* validate_files looking at the first file only
validate_files_first_only(files) ==
    IF Lower(SplitextExt(Basename(files[1]))) \in SUPPORTED_FILE_TYPES THEN None
    ELSE Some(UNSUPPORTED_PRE \o SplitextExt(Basename(files[1])) \o UNSUPPORTED_MID
              \o Basename(files[1]) \o UNSUPPORTED_END)

\* DocumentProcessor.validate_files: None when all files pass, Some(message of the
\* InvalidFileTypeException) for the first file with an unsupported extension
validate_files(files) ==
    LET bad == {i \in 1..Len(files) :
                   Lower(SplitextExt(Basename(files[i]))) \notin SUPPORTED_FILE_TYPES}
    IN  IF bad = {} THEN None
        ELSE LET i == CHOOSE k \in bad : \A j \in bad : k <= j
                 file_name == Basename(files[i])
             IN  Some(UNSUPPORTED_PRE \o SplitextExt(file_name) \o UNSUPPORTED_MID
                      \o file_name \o UNSUPPORTED_END)

\* TextLoaderStrategy.load answering a failure with empty content
TextLoaderStrategy_load_empty_on_failure(file_path, outcome) ==
    IF outcome = "ok" THEN FILE_CONTENT ELSE <<>>

\* TextLoaderStrategy.load: the content, or the bracketed message of the except branch
TextLoaderStrategy_load(file_path, outcome) ==
    CASE outcome = "ok" -> FILE_CONTENT
      [] outcome = "FileNotFoundError" -> TXT_NOT_FOUND_MSG \o Basename(file_path) \o <<"]">>
      [] outcome = "IOError" -> TXT_IO_ERROR_MSG \o Basename(file_path) \o <<"]">>
      [] OTHER -> TXT_UNEXPECTED_MSG \o Basename(file_path) \o <<"]">>

\* DocumentProcessor._strategies.get(ext): the loaders of the document kinds uploaded here
HasStrategy(ext) == ext = <<".","t","x","t">>

\* DocumentProcessor.process_files; outcomes[i] is how loading files[i] ends
RECURSIVE all_texts(_, _)
all_texts(files, outcomes) ==
    IF Len(files) = 0 THEN <<>>
    ELSE LET file_path == files[1]
             rest == all_texts(Tail(files), Tail(outcomes))
         IN  IF ~HasStrategy(Lower(SplitextExt(file_path))) THEN rest
             ELSE <<CONTENT_HEADER \o Basename(file_path) \o CONTENT_HEADER_END
                    \o TextLoaderStrategy_load(file_path, outcomes[1])>> \o rest

process_files(files, outcomes) == Join(FILE_SEPARATOR, all_texts(files, outcomes))

(* ------------------------------ services.py --------------------------- *)

MODEL_NOT_AVAILABLE_MSG ==
    <<"E","r","r","o","r",":"," ","T","h","e"," ","A","I"," ","m","o","d","e","l"," ","i","s",
      " ","n","o","t"," ","a","v","a","i","l","a","b","l","e","."," ","P","l","e","a","s","e",
      " ","c","h","e","c","k"," ","t","h","e"," ","a","p","p","l","i","c","a","t","i","o","n",
      " ","l","o","g","s",".">>

EMPTY_PROMPT_MSG ==
    <<"P","l","e","a","s","e"," ","e","n","t","e","r"," ","a"," ","p","r","o","m","p","t"," ",
      "t","o"," ","c","o","n","t","i","n","u","e",".">>

RATE_LIMIT_MSG ==
    <<"T","h","e"," ","A","I"," ","s","e","r","v","i","c","e"," ","i","s"," ","c","u","r","r",
      "e","n","t","l","y"," ","b","u","s","y"," ","d","u","e"," ","t","o"," ","h","i","g","h",
      " ","d","e","m","a","n","d"," ","(","R","a","t","e"," ","L","i","m","i","t"," ","E","x",
      "c","e","e","d","e","d",")","."," ","P","l","e","a","s","e"," ","w","a","i","t"," ","a",
      " ","m","i","n","u","t","e"," ","a","n","d"," ","t","r","y"," ","a","g","a","i","n",".">>

SERVICE_ERROR_MSG ==
    <<"A","n"," ","e","r","r","o","r"," ","o","c","c","u","r","r","e","d"," ","w","h","i","l",
      "e"," ","c","o","m","m","u","n","i","c","a","t","i","n","g"," ","w","i","t","h"," ","t",
      "h","e"," ","A","I"," ","m","o","d","e","l","."," ","P","l","e","a","s","e"," ","c","h",
      "e","c","k"," ","t","h","e"," ","l","o","g","s",".">>

\* texts the Gemini API may send back
REAL_ANSWER ==
    <<"T","h","i","s"," ","i","s"," ","a"," ","r","e","a","l"," ","a","n","s","w","e","r",".">>

OTHER_ANSWER ==
    <<"A"," ","f","r","e","s","h"," ","a","n","s","w","e","r"," ","f","r","o","m"," ","t","h",
      "e"," ","L","L","M",".">>

\* how model.generate_content ends: a blocked prompt, a response text, a
\* StopCandidateException, a ResourceExhausted error, any other exception
ApiOutcomes ==
    {[kind |-> k, text |-> <<>>] : k \in {"blocked", "stopped", "ResourceExhausted", "Exception"}}
    \cup {[kind |-> "text", text |-> t] :
             t \in {REAL_ANSWER, OTHER_ANSWER, UNKNOWN_ANSWER, NOT_ALLOWED_ANSWER, <<>>}}

\* the config attributes the prompt template of get_answer reads
TemplateFields == {"UNKNOWN_ANSWER", "NOT_ALLOWED_ANSWER", "MAX_TOKEN_LIMIT_REACHED"}

\* GeminiService.get_answer: [raised, value]; raised names the exception that leaves
\* the method, value is the returned string otherwise
get_answer(model_ready, user_prompt, api) ==
    IF ~model_ready
    THEN [raised |-> None, value |-> MODEL_NOT_AVAILABLE_MSG]
    ELSE IF Strip(user_prompt) = <<>>
    THEN [raised |-> None, value |-> EMPTY_PROMPT_MSG]
    ELSE IF ~(TemplateFields \subseteq ConfigFields)
    THEN [raised |-> Some("AttributeError"), value |-> <<>>]
    ELSE CASE api.kind = "blocked" -> [raised |-> None, value |-> NOT_ALLOWED_ANSWER]
           [] api.kind = "text" -> [raised |-> None, value |-> Strip(Strip(api.text))]
           [] api.kind = "stopped" -> [raised |-> None, value |-> NOT_ALLOWED_ANSWER]
           [] api.kind = "ResourceExhausted" -> [raised |-> None, value |-> RATE_LIMIT_MSG]
           [] OTHER -> [raised |-> None, value |-> SERVICE_ERROR_MSG]

(* ------------------------------ database.py --------------------------- *)

\* get_cached_answer that never finds a row
get_cached_answer_never_found(table, cache_key, fault) == None

\* get_cached_answer answering a storage fault from the row it holds
get_cached_answer_ignoring_fault(table, cache_key, fault) ==
    IF \E row \in table : row.cache_key = cache_key
    THEN Some((CHOOSE row \in table : row.cache_key = cache_key).llm_answer)
    ELSE None

\* DatabaseManager.get_cached_answer on table interactions_cache (a set of rows with
\* primary key cache_key); fault: the query raises sqlite3.Error, answered with None
get_cached_answer(table, cache_key, fault) ==
    IF fault THEN None
    ELSE IF \E row \in table : row.cache_key = cache_key
    THEN Some((CHOOSE row \in table : row.cache_key = cache_key).llm_answer)
    ELSE None

\* set_cached_answer as INSERT OR IGNORE: a row already stored under the key is kept
set_cached_answer_insert_or_ignore(table, cache_key, answer, now, fault) ==
    IF fault \/ \E row \in table : row.cache_key = cache_key THEN table
    ELSE table \cup {[cache_key |-> cache_key, llm_answer |-> answer, created_at |-> now]}

\* DatabaseManager.set_cached_answer: INSERT OR REPLACE; fault: sqlite3.Error, swallowed
set_cached_answer(table, cache_key, answer, now, fault) ==
    IF fault THEN table
    ELSE {row \in table : row.cache_key # cache_key}
         \cup {[cache_key |-> cache_key, llm_answer |-> answer, created_at |-> now]}

\* log_interaction whose INSERT is never committed
log_interaction_not_committed(rows, interaction_log) == rows

\* log_interaction as a table of one row: the INSERT replaces what the table held
log_interaction_keeping_latest(rows, interaction_log) == <<interaction_log>>

\* DatabaseManager.log_interaction: INSERT INTO interactions; the caller sees
\* sqlite3.Error re-raised on a fault
log_interaction(rows, interaction_log) == Append(rows, interaction_log)

(* ---------------------------- state_machine.py ------------------------- *)

NO_DOCUMENT_MSG ==
    <<"P","l","e","a","s","e"," ","u","p","l","o","a","d"," ","a","t"," ","l","e","a","s","t",
      " ","o","n","e"," ","d","o","c","u","m","e","n","t",".">>

DB_ERROR_MSG ==
    <<"F","a","i","l","e","d"," ","t","o"," ","s","a","v","e"," ","e","v","a","l","u","a","t",
      "i","o","n"," ","d","u","e"," ","t","o"," ","d","a","t","a","b","a","s","e"," ","e","r",
      "r","o","r",".">>

YES_MARKER ==
    <<"<2714>","<FE0F>"," ","Y","e","s">>

ERROR_WORD ==
    <<"e","r","r","o","r">>

KEY_TEMPERATURE ==
    <<"t","e","m","p","e","r","a","t","u","r","e">>

KEY_TOP_P ==
    <<"t","o","p","_","p">>

DIGITS == <<"0","1","2","3","4","5","6","7","8","9">>

\* code-point order of the characters that occur in parameter names
KEY_ORDER == <<"_">> \o LOWER

CharRank(c) == CHOOSE i \in 1..Len(KEY_ORDER) : KEY_ORDER[i] = c

\* a < b for Python str (lexicographic by code point)
RECURSIVE StrLess(_, _)
StrLess(a, b) ==
    IF Len(b) = 0 THEN FALSE
    ELSE IF Len(a) = 0 THEN TRUE
    ELSE IF a[1] = b[1] THEN StrLess(Tail(a), Tail(b))
    ELSE CharRank(a[1]) < CharRank(b[1])

\* repr() of a float given in hundredths, 0.0 to 1.0: "0.2", "0.95", "1.0"
FloatRepr(h) ==
    <<DIGITS[(h \div 100) + 1], ".">>
    \o (IF h % 10 = 0 THEN <<DIGITS[((h % 100) \div 10) + 1]>>
        ELSE <<DIGITS[((h % 100) \div 10) + 1], DIGITS[(h % 10) + 1]>>)

\* a dict is the sequence of its <<key, value>> items in insertion order
Lookup(d, key) == (CHOOSE i \in 1..Len(d) : d[i][1] = key) 

DictGet(d, key) == d[Lookup(d, key)][2]

\* the items of d sorted by key
RECURSIVE SortedItems(_)
SortedItems(d) ==
    IF Len(d) = 0 THEN <<>>
    ELSE LET m == CHOOSE i \in 1..Len(d) : \A j \in 1..Len(d) : ~StrLess(d[j][1], d[i][1])
         IN  <<d[m]>> \o SortedItems([i \in 1..(Len(d) - 1) |-> IF i < m THEN d[i] ELSE d[i + 1]])

\* json.dumps without sort_keys: the items in insertion order
json_dumps_in_insertion_order(d) ==
    <<"{">>
    \o Join(<<",", " ">>,
            [i \in 1..Len(d) |->
                <<"\"">> \o d[i][1] \o <<"\"", ":", " ">> \o FloatRepr(d[i][2])])
    \o <<"}">>

\* json.dumps(llm_params, sort_keys = True)
json_dumps(d) ==
    LET items == SortedItems(d)
    IN  <<"{">>
        \o Join(<<",", " ">>,
                [i \in 1..Len(items) |->
                    <<"\"">> \o items[i][1] \o <<"\"", ":", " ">> \o FloatRepr(items[i][2])])
        \o <<"}">>

\* hashlib.sha256(...).hexdigest(): a digest without collisions, named by its preimage
sha256_hexdigest(key_material) == [sha256_of |-> key_material]

\* check_cache, lines 153-162
compute_cache_key(extracted_text, prompt, llm_params) ==
    sha256_hexdigest(extracted_text \o prompt \o json_dumps(llm_params) \o LLM_MODEL_NAME)

\* is_real looking for "error" in the answer as it is, not lower-cased
is_real_case_sensitive(answer) ==
    /\ answer \notin {UNKNOWN_ANSWER, NOT_ALLOWED_ANSWER}
    /\ ~Contains(answer, ERROR_WORD)

\* classify_answer, line 213
is_real(answer) ==
    /\ answer \notin {UNKNOWN_ANSWER, NOT_ALLOWED_ANSWER}
    /\ ~Contains(Lower(answer), ERROR_WORD)

\* evaluation_text comparing the whole choice with the marker
evaluation_text_by_equality(choice) == IF choice = YES_MARKER THEN "yes" ELSE "no"

\* process_human_evaluation, line 269
evaluation_text(choice) == IF Contains(choice, YES_MARKER) THEN "yes" ELSE "no"

\* process_human_evaluation, line 270
reason_text(reason) ==
    IF ~IsNone(reason) /\ Get(reason) # <<>> /\ Strip(Get(reason)) # <<>>
    THEN Strip(Get(reason)) ELSE NO_REASON_GIVEN

\* InteractionLog built with config.TEMPERATURE and config.TOP_P
InteractionLog_with_config_defaults(now, document_names, prompt, answer, output_passed, eval_reason, temperature, top_p) ==
    [timestamp |-> now, document_names |-> document_names, prompt |-> prompt,
     answer |-> answer, output_passed |-> output_passed, eval_reason |-> eval_reason,
     model_name |-> LLM_MODEL_NAME, temperature |-> 20, top_p |-> 95]

\* InteractionLog(...): the pydantic record, timestamp from datetime.now()
InteractionLog(now, document_names, prompt, answer, output_passed, eval_reason, temperature, top_p) ==
    [timestamp |-> now, document_names |-> document_names, prompt |-> prompt,
     answer |-> answer, output_passed |-> output_passed, eval_reason |-> eval_reason,
     model_name |-> LLM_MODEL_NAME, temperature |-> temperature, top_p |-> top_p]

\* InvestigationState(): the pydantic defaults
InvestigationState ==
    [files |-> None, prompt |-> None, llm_params |-> <<>>, doc_names |-> <<>>,
     extracted_text |-> <<>>, llm_answer |-> <<>>, is_real_answer |-> FALSE,
     error_message |-> None, evaluation_choice |-> None, evaluation_reason |-> None,
     interaction_to_log |-> None, outcome |-> None, classification |-> None,
     hit |-> None, cache_key |-> None]

\* Transitions with auto_log_and_terminate leading to await_human_evaluation
Transitions_auto_log_to_await ==
    << [from |-> "process_inputs", to |-> "process_documents", cond |-> <<"outcome", Some("success")>>],
       [from |-> "process_inputs", to |-> "error", cond |-> <<"outcome", Some("failure")>>],
       [from |-> "process_documents", to |-> "check_cache", cond |-> <<>>],
       [from |-> "check_cache", to |-> "generate_answer", cond |-> <<"hit", Some(FALSE)>>],
       [from |-> "generate_answer", to |-> "classify_answer", cond |-> <<>>],
       [from |-> "check_cache", to |-> "classify_answer", cond |-> <<"hit", Some(TRUE)>>],
       [from |-> "classify_answer", to |-> "update_cache", cond |-> <<"classification", Some("real_answer")>>],
       [from |-> "classify_answer", to |-> "auto_log_and_terminate", cond |-> <<>>],
       [from |-> "update_cache", to |-> "await_human_evaluation", cond |-> <<>>],
       [from |-> "auto_log_and_terminate", to |-> "await_human_evaluation", cond |-> <<>>],
       [from |-> "await_human_evaluation", to |-> "process_human_evaluation", cond |-> <<>>],
       [from |-> "process_human_evaluation", to |-> "end", cond |-> <<>>] >>

\* Transitions with generate_answer leading to update_cache, past classify_answer
Transitions_generate_to_update_cache ==
    << [from |-> "process_inputs", to |-> "process_documents", cond |-> <<"outcome", Some("success")>>],
       [from |-> "process_inputs", to |-> "error", cond |-> <<"outcome", Some("failure")>>],
       [from |-> "process_documents", to |-> "check_cache", cond |-> <<>>],
       [from |-> "check_cache", to |-> "generate_answer", cond |-> <<"hit", Some(FALSE)>>],
       [from |-> "generate_answer", to |-> "update_cache", cond |-> <<>>],
       [from |-> "check_cache", to |-> "classify_answer", cond |-> <<"hit", Some(TRUE)>>],
       [from |-> "classify_answer", to |-> "update_cache", cond |-> <<"classification", Some("real_answer")>>],
       [from |-> "classify_answer", to |-> "auto_log_and_terminate", cond |-> <<>>],
       [from |-> "update_cache", to |-> "await_human_evaluation", cond |-> <<>>],
       [from |-> "auto_log_and_terminate", to |-> "end", cond |-> <<>>],
       [from |-> "await_human_evaluation", to |-> "process_human_evaluation", cond |-> <<>>],
       [from |-> "process_human_evaluation", to |-> "end", cond |-> <<>>] >>

\* Transitions with one more edge, from end back to process_inputs
Transitions_end_to_process_inputs ==
    << [from |-> "process_inputs", to |-> "process_documents", cond |-> <<"outcome", Some("success")>>],
       [from |-> "process_inputs", to |-> "error", cond |-> <<"outcome", Some("failure")>>],
       [from |-> "process_documents", to |-> "check_cache", cond |-> <<>>],
       [from |-> "check_cache", to |-> "generate_answer", cond |-> <<"hit", Some(FALSE)>>],
       [from |-> "generate_answer", to |-> "classify_answer", cond |-> <<>>],
       [from |-> "check_cache", to |-> "classify_answer", cond |-> <<"hit", Some(TRUE)>>],
       [from |-> "classify_answer", to |-> "update_cache", cond |-> <<"classification", Some("real_answer")>>],
       [from |-> "classify_answer", to |-> "auto_log_and_terminate", cond |-> <<>>],
       [from |-> "update_cache", to |-> "await_human_evaluation", cond |-> <<>>],
       [from |-> "auto_log_and_terminate", to |-> "end", cond |-> <<>>],
       [from |-> "await_human_evaluation", to |-> "process_human_evaluation", cond |-> <<>>],
       [from |-> "process_human_evaluation", to |-> "end", cond |-> <<>>],
       [from |-> "end", to |-> "process_inputs", cond |-> <<>>] >>

\* build_application .with_transitions, in order; cond is <<>> for an unconditional
\* (or default) edge and <<field, value>> for when(field = value)
Transitions ==
    << [from |-> "process_inputs", to |-> "process_documents", cond |-> <<"outcome", Some("success")>>],
       [from |-> "process_inputs", to |-> "error", cond |-> <<"outcome", Some("failure")>>],
       [from |-> "process_documents", to |-> "check_cache", cond |-> <<>>],
       [from |-> "check_cache", to |-> "generate_answer", cond |-> <<"hit", Some(FALSE)>>],
       [from |-> "generate_answer", to |-> "classify_answer", cond |-> <<>>],
       [from |-> "check_cache", to |-> "classify_answer", cond |-> <<"hit", Some(TRUE)>>],
       [from |-> "classify_answer", to |-> "update_cache", cond |-> <<"classification", Some("real_answer")>>],
       [from |-> "classify_answer", to |-> "auto_log_and_terminate", cond |-> <<>>],
       [from |-> "update_cache", to |-> "await_human_evaluation", cond |-> <<>>],
       [from |-> "auto_log_and_terminate", to |-> "end", cond |-> <<>>],
       [from |-> "await_human_evaluation", to |-> "process_human_evaluation", cond |-> <<>>],
       [from |-> "process_human_evaluation", to |-> "end", cond |-> <<>>] >>

\* Fires with the when(hit = ...) conditions left out
Fires_without_hit_condition(t, prior, s) ==
    /\ t.from = prior
    /\ \/ Len(t.cond) = 0
       \/ /\ Len(t.cond) = 2
          /\ \/ t.cond[1] = "outcome" /\ s.outcome = t.cond[2]
             \/ t.cond[1] = "hit"
             \/ t.cond[1] = "classification" /\ s.classification = t.cond[2]

\* Fires with the when(hit = ...) conditions inverted
Fires_with_hit_inverted(t, prior, s) ==
    /\ t.from = prior
    /\ \/ Len(t.cond) = 0
       \/ /\ Len(t.cond) = 2
          /\ \/ t.cond[1] = "outcome" /\ s.outcome = t.cond[2]
             \/ t.cond[1] = "hit" /\ s.hit # t.cond[2]
             \/ t.cond[1] = "classification" /\ s.classification = t.cond[2]

\* Fires with the when(classification = ...) condition left out
Fires_without_classification_condition(t, prior, s) ==
    /\ t.from = prior
    /\ \/ Len(t.cond) = 0
       \/ /\ Len(t.cond) = 2
          /\ \/ t.cond[1] = "outcome" /\ s.outcome = t.cond[2]
             \/ t.cond[1] = "hit" /\ s.hit = t.cond[2]
             \/ t.cond[1] = "classification"


\* Fires with the when(outcome = ...) conditions left out
Fires_without_outcome_condition(t, prior, s) ==
    /\ t.from = prior
    /\ \/ Len(t.cond) = 0
       \/ /\ Len(t.cond) = 2
          /\ \/ t.cond[1] = "outcome"
             \/ t.cond[1] = "hit" /\ s.hit = t.cond[2]
             \/ t.cond[1] = "classification" /\ s.classification = t.cond[2]

\* does transition t leave action prior in state s
Fires(t, prior, s) ==
    /\ t.from = prior
    /\ \/ Len(t.cond) = 0
       \/ /\ Len(t.cond) = 2
          /\ \/ t.cond[1] = "outcome" /\ s.outcome = t.cond[2]
             \/ t.cond[1] = "hit" /\ s.hit = t.cond[2]
             \/ t.cond[1] = "classification" /\ s.classification = t.cond[2]

\* the action Burr runs next: the entrypoint first, then the first transition that
\* fires; "none" when no transition leaves the prior action
NextAction(prior, s) ==
    IF prior = "start" THEN "process_inputs"
    ELSE LET fire == {i \in 1..Len(Transitions) : Fires(Transitions[i], prior, s)}
         IN  IF fire = {} THEN "none"
             ELSE Transitions[CHOOSE i \in fire : \A j \in fire : i <= j].to

(* ------------------------------- inputs -------------------------------- *)

PROMPT_SUMMARIZE ==
    <<"S","u","m","m","a","r","i","z","e",".">>

PROMPT_BLANK ==
    <<" ">>

CHOICE_YES ==
    <<"<2714>","<FE0F>"," ","Y","e","s",","," ","t","h","e"," ","a","n","s","w","e","r"," ","i",
      "s"," ","h","e","l","p","f","u","l"," ","a","n","d"," ","a","c","c","u","r","a","t","e",
      ".">>

CHOICE_NO ==
    <<"<274C>"," ","N","o",","," ","t","h","e"," ","a","n","s","w","e","r"," ","i","s"," ","n",
      "o","t"," ","h","e","l","p","f","u","l"," ","o","r"," ","i","n","a","c","c","u","r","a",
      "t","e",".">>

REASON_GOOD ==
    <<" ","G","o","o","d","."," ">>

FileChoices == {<<>>, <<FILE_PNG>>, <<FILE_TXT>>, <<FILE_TXT, FILE_PNG>>}

Prompts == {PROMPT_SUMMARIZE, PROMPT_BLANK}

\* llm_params: temperature 0.2 and top_p 0.95, in hundredths
ParamChoices == {<< <<KEY_TEMPERATURE, 20>>, <<KEY_TOP_P, 95>> >>}

EvaluationChoices == {CHOICE_YES, CHOICE_NO}

Reasons == {<<>>, <<" ">>, REASON_GOOD}

(* -------------------------------- state -------------------------------- *)

\* AppUI._build_investigate_tab: the gr.State values (None), the answer shown (None for
\* the placeholder) and the visibility of the evaluation panel of a fresh session;
\* inputs: the values submit_btn.click passed; handled: the handlers the session has
\* run; submissions: the choice and reason of each evaluation submitted; calls: the collaborator calls the handlers made; error: the
\* gr.Error the last handler raised
AppUISession ==
    [state_doc_names |-> None, state_last_prompt |-> None, state_last_answer |-> None,
     state_temperature |-> None, state_top_p |-> None, answer_output |-> None,
     evaluation_panel |-> FALSE, inputs |-> None, handled |-> <<>>, submissions |-> <<>>,
     calls |-> <<>>, error |-> None]

VARIABLES
    state,        \* state[r]: the InvestigationState of workflow instance r
    position,     \* position[r]: the action instance r ran last, "start" before the first
    raised,       \* raised[r]: the exception that left an action of r and ended its run
    interactions_cache,   \* table interactions_cache
    interactions, \* table interactions, in id order
    clock,        \* number of datetime.now() readings taken so far
    model_ready,  \* GeminiService.model is set
    history,      \* history[r]: the actions r has run, in order (Burr's tracker)
    calls,        \* calls[r]: collaborator calls made by r, in order: [op, ok, entry]
    step_inputs,  \* step_inputs[r]: the verdict and reason given to app.step on resume
    ui            \* ui[r]: the gr.State values and the panel of AppUI browser session r

vars == <<state, position, raised, interactions_cache, interactions, clock, model_ready,
          history, calls, step_inputs, ui>>

Init ==
    /\ state = [r \in Requests |-> InvestigationState]
    /\ position = [r \in Requests |-> "start"]
    /\ raised = [r \in Requests |-> None]
    /\ interactions_cache = {}
    /\ interactions = <<>>
    /\ clock = 0
    /\ model_ready \in BOOLEAN
    /\ history = [r \in Requests |-> <<>>]
    /\ calls = [r \in Requests |-> <<>>]
    /\ step_inputs = [r \in Requests |-> None]
    /\ ui = [r \in Requests |-> AppUISession]

\* Application.step picks action a for instance r
Runs(r, a) == IsNone(raised[r]) /\ NextAction(position[r], state[r]) = a

\* r calls collaborator method op; ok: it met no fault; entry: Some(the InteractionLog
\* passed) for log_interaction, Some(the row the table holds under the key) for
\* get_cached_answer, Some(the text returned) for process_files, Some(the context
\* passed) for get_answer, None otherwise
Called(r, op, ok, entry) ==
    calls' = [calls EXCEPT ![r] = Append(@, [op |-> op, ok |-> ok, entry |-> entry])]

\* Burr records that r ran action a
Ran(r, a) ==
    /\ position' = [position EXCEPT ![r] = a]
    /\ history' = [history EXCEPT ![r] = Append(@, a)]

(* ------------------------------- actions ------------------------------- *)

\* the body of process_inputs with its inputs
process_inputs_body(r, files, prompt, llm_params) ==
    LET base_update == [state[r] EXCEPT !.files = Some(files), !.prompt = Some(prompt),
                                        !.llm_params = llm_params]
    IN  IF Len(files) = 0
        THEN /\ state' = [state EXCEPT ![r] =
                    [base_update EXCEPT !.error_message = Some(NO_DOCUMENT_MSG),
                                        !.outcome = Some("failure")]]
             /\ UNCHANGED calls
        ELSE /\ Called(r, "validate_files", IsNone(validate_files(files)), None)
             /\ IF IsNone(validate_files(files))
                THEN state' = [state EXCEPT ![r] =
                         [base_update EXCEPT !.outcome = Some("success")]]
                ELSE state' = [state EXCEPT ![r] =
                         [base_update EXCEPT !.error_message = validate_files(files),
                                             !.outcome = Some("failure")]]

process_inputs(r) ==
    /\ Runs(r, "process_inputs")
    /\ \E files \in FileChoices, prompt \in Prompts, llm_params \in ParamChoices :
          process_inputs_body(r, files, prompt, llm_params)
    /\ Ran(r, "process_inputs")
    /\ UNCHANGED <<raised, interactions_cache, interactions, clock, model_ready, ui, step_inputs>>

\* process_documents whose slice keeps one character more than the ceiling
process_documents_config_slicing_one_more(r, full_text, extracted, max_context_characters) ==
    LET files == Get(state[r].files)
        doc_names == Join(NAME_SEPARATOR, [i \in 1..Len(files) |-> Basename(files[i])])
    IN  /\ state' = [state EXCEPT ![r] =
               [@ EXCEPT !.extracted_text =
                             IF Len(full_text) > max_context_characters
                             THEN SubSeq(full_text, 1, max_context_characters + 1)
                             ELSE full_text,
                         !.doc_names = doc_names]]
        /\ Called(r, "process_files", extracted, Some([full_text |-> full_text]))

\* the body of process_documents with the text process_files returned and the
\* config.MAX_CONTEXT_CHARACTERS of the Config the application was built with;
\* extracted: no loader met a failure
process_documents_config(r, full_text, extracted, max_context_characters) ==
    LET files == Get(state[r].files)
        doc_names == Join(NAME_SEPARATOR, [i \in 1..Len(files) |-> Basename(files[i])])
    IN  /\ state' = [state EXCEPT ![r] =
               [@ EXCEPT !.extracted_text =
                             IF Len(full_text) > max_context_characters
                             THEN SubSeq(full_text, 1, max_context_characters)
                             ELSE full_text,
                         !.doc_names = doc_names]]
        /\ Called(r, "process_files", extracted, Some([full_text |-> full_text]))

\* the body of process_documents under the shipped Config
process_documents_body(r, full_text, extracted) ==
    process_documents_config(r, full_text, extracted, MAX_CONTEXT_CHARACTERS)

process_documents(r) ==
    /\ Runs(r, "process_documents")
    /\ LET files == Get(state[r].files)
       IN  \E outcomes \in [1..Len(files) -> LoadOutcomes] :
              process_documents_body(r, process_files(files, outcomes),
                                     \A i \in 1..Len(files) : outcomes[i] = "ok")
    /\ Ran(r, "process_documents")
    /\ UNCHANGED <<raised, interactions_cache, interactions, clock, model_ready, ui, step_inputs>>

\* check_cache that tests the cached answer with "is not None"
check_cache_hit_unless_none(r) ==
    /\ Runs(r, "check_cache")
    /\ \E fault \in BOOLEAN :
          LET cache_key == compute_cache_key(state[r].extracted_text, Get(state[r].prompt),
                                             state[r].llm_params)
              cached_answer == get_cached_answer(interactions_cache, cache_key, fault)
          IN  /\ IF ~IsNone(cached_answer)
                 THEN state' = [state EXCEPT ![r] =
                          [@ EXCEPT !.llm_answer = Get(cached_answer),
                                    !.cache_key = Some(cache_key), !.hit = Some(TRUE)]]
                 ELSE state' = [state EXCEPT ![r] =
                          [@ EXCEPT !.cache_key = Some(cache_key), !.hit = Some(FALSE)]]
              /\ Called(r, "get_cached_answer", ~fault,
                        IF \E row \in interactions_cache : row.cache_key = cache_key
                        THEN Some(CHOOSE row \in interactions_cache : row.cache_key = cache_key)
                        ELSE None)
    /\ Ran(r, "check_cache")
    /\ UNCHANGED <<raised, interactions_cache, interactions, clock, model_ready, ui, step_inputs>>

check_cache(r) ==
    /\ Runs(r, "check_cache")
    /\ \E fault \in BOOLEAN :
          LET cache_key == compute_cache_key(state[r].extracted_text, Get(state[r].prompt),
                                             state[r].llm_params)
              cached_answer == get_cached_answer(interactions_cache, cache_key, fault)
          IN  /\ IF ~IsNone(cached_answer) /\ Get(cached_answer) # <<>>
                 THEN state' = [state EXCEPT ![r] =
                          [@ EXCEPT !.llm_answer = Get(cached_answer),
                                    !.cache_key = Some(cache_key), !.hit = Some(TRUE)]]
                 ELSE state' = [state EXCEPT ![r] =
                          [@ EXCEPT !.cache_key = Some(cache_key), !.hit = Some(FALSE)]]
              /\ Called(r, "get_cached_answer", ~fault,
                        IF \E row \in interactions_cache : row.cache_key = cache_key
                        THEN Some(CHOOSE row \in interactions_cache : row.cache_key = cache_key)
                        ELSE None)
    /\ Ran(r, "check_cache")
    /\ UNCHANGED <<raised, interactions_cache, interactions, clock, model_ready, ui, step_inputs>>

\* the body of generate_answer with what ai_service.get_answer did: [raised, value]
generate_answer_body(r, answer) ==
    IF IsNone(answer.raised)
    THEN /\ state' = [state EXCEPT ![r] = [@ EXCEPT !.llm_answer = answer.value]]
         /\ Ran(r, "generate_answer")
         /\ Called(r, "get_answer", TRUE,
                   Some([full_text_context |-> state[r].extracted_text]))
         /\ UNCHANGED raised
    ELSE /\ raised' = [raised EXCEPT ![r] = answer.raised]
         /\ Called(r, "get_answer", FALSE,
                   Some([full_text_context |-> state[r].extracted_text]))
         /\ UNCHANGED <<state, position, history>>

generate_answer(r) ==
    /\ Runs(r, "generate_answer")
    /\ \E api \in ApiOutcomes :
          generate_answer_body(r, get_answer(model_ready, Get(state[r].prompt), api))
    /\ UNCHANGED <<interactions_cache, interactions, clock, model_ready, ui, step_inputs>>

classify_answer(r) ==
    /\ Runs(r, "classify_answer")
    /\ state' = [state EXCEPT ![r] =
           [@ EXCEPT !.is_real_answer = is_real(state[r].llm_answer),
                     !.classification = IF is_real(state[r].llm_answer)
                                        THEN Some("real_answer")
                                        ELSE Some("predefined_answer")]]
    /\ Ran(r, "classify_answer")
    /\ UNCHANGED <<raised, interactions_cache, interactions, clock, model_ready, ui, step_inputs, calls>>


\* update_cache that leaves the entry alone when the answer came from the cache
update_cache_skipping_hits(r) ==
    /\ Runs(r, "update_cache")
    /\ IF state[r].is_real_answer /\ state[r].hit # Some(TRUE)
       THEN \E fault \in BOOLEAN :
               /\ interactions_cache' =
                      set_cached_answer(interactions_cache, Get(state[r].cache_key),
                                        state[r].llm_answer, clock + 1, fault)
               /\ clock' = IF fault THEN clock ELSE clock + 1
               /\ Called(r, "set_cached_answer", ~fault, None)
       ELSE UNCHANGED <<interactions_cache, clock, calls>>
    /\ Ran(r, "update_cache")
    /\ UNCHANGED <<state, raised, interactions, model_ready, ui, step_inputs>>

\* update_cache that computes the key anew, from the answer in place of the text
update_cache_rekeying(r) ==
    /\ Runs(r, "update_cache")
    /\ IF state[r].is_real_answer
       THEN \E fault \in BOOLEAN :
               /\ interactions_cache' =
                      set_cached_answer(interactions_cache,
                                        compute_cache_key(state[r].llm_answer,
                                                          Get(state[r].prompt),
                                                          state[r].llm_params),
                                        state[r].llm_answer, clock + 1, fault)
               /\ clock' = IF fault THEN clock ELSE clock + 1
               /\ Called(r, "set_cached_answer", ~fault, None)
       ELSE UNCHANGED <<interactions_cache, clock, calls>>
    /\ Ran(r, "update_cache")
    /\ UNCHANGED <<state, raised, interactions, model_ready, ui, step_inputs>>

update_cache(r) ==
    /\ Runs(r, "update_cache")
    /\ IF state[r].is_real_answer
       THEN \E fault \in BOOLEAN :
               /\ interactions_cache' =
                      set_cached_answer(interactions_cache, Get(state[r].cache_key),
                                        state[r].llm_answer, clock + 1, fault)
               /\ clock' = IF fault THEN clock ELSE clock + 1
               /\ Called(r, "set_cached_answer", ~fault, None)
       ELSE UNCHANGED <<interactions_cache, clock, calls>>
    /\ Ran(r, "update_cache")
    /\ UNCHANGED <<state, raised, interactions, model_ready, ui, step_inputs>>

\* auto_log_and_terminate without its except clause: the sqlite3.Error leaves the action
auto_log_and_terminate_without_except(r) ==
    /\ Runs(r, "auto_log_and_terminate")
    /\ LET log_entry == InteractionLog(clock + 1, state[r].doc_names, Get(state[r].prompt),
                                       state[r].llm_answer, "no", NO_REASON_GIVEN,
                                       DictGet(state[r].llm_params, KEY_TEMPERATURE),
                                       DictGet(state[r].llm_params, KEY_TOP_P))
       IN  \E fault \in BOOLEAN :
              /\ Called(r, "log_interaction", ~fault, Some(log_entry))
              /\ IF ~fault
                 THEN /\ interactions' = log_interaction(interactions, log_entry)
                      /\ state' = [state EXCEPT ![r] =
                             [@ EXCEPT !.interaction_to_log = Some(log_entry)]]
                      /\ Ran(r, "auto_log_and_terminate")
                      /\ UNCHANGED raised
                 ELSE /\ raised' = [raised EXCEPT ![r] = Some("sqlite3.Error")]
                      /\ UNCHANGED <<interactions, state, position, history>>
    /\ clock' = clock + 1
    /\ UNCHANGED <<interactions_cache, model_ready, ui, step_inputs>>

\* auto_log_and_terminate that updates the state before the append, so that the
\* entry stays recorded when the append fails
auto_log_and_terminate_recording_before_append(r) ==
    /\ Runs(r, "auto_log_and_terminate")
    /\ LET log_entry == InteractionLog(clock + 1, state[r].doc_names, Get(state[r].prompt),
                                       state[r].llm_answer, "no", NO_REASON_GIVEN,
                                       DictGet(state[r].llm_params, KEY_TEMPERATURE),
                                       DictGet(state[r].llm_params, KEY_TOP_P))
       IN  \E fault \in BOOLEAN :
              /\ Called(r, "log_interaction", ~fault, Some(log_entry))
              /\ state' = [state EXCEPT ![r] =
                     [@ EXCEPT !.interaction_to_log = Some(log_entry)]]
              /\ IF ~fault
                 THEN interactions' = log_interaction(interactions, log_entry)
                 ELSE UNCHANGED interactions
    /\ clock' = clock + 1
    /\ Ran(r, "auto_log_and_terminate")
    /\ UNCHANGED <<raised, interactions_cache, model_ready, ui, step_inputs>>

auto_log_and_terminate(r) ==
    /\ Runs(r, "auto_log_and_terminate")
    /\ LET log_entry == InteractionLog(clock + 1, state[r].doc_names, Get(state[r].prompt),
                                       state[r].llm_answer, "no", NO_REASON_GIVEN,
                                       DictGet(state[r].llm_params, KEY_TEMPERATURE),
                                       DictGet(state[r].llm_params, KEY_TOP_P))
       IN  \E fault \in BOOLEAN :
              /\ Called(r, "log_interaction", ~fault, Some(log_entry))
              /\ IF ~fault
                 THEN /\ interactions' = log_interaction(interactions, log_entry)
                      /\ state' = [state EXCEPT ![r] =
                             [@ EXCEPT !.interaction_to_log = Some(log_entry)]]
                 ELSE UNCHANGED <<interactions, state>>
    /\ clock' = clock + 1
    /\ Ran(r, "auto_log_and_terminate")
    /\ UNCHANGED <<raised, interactions_cache, model_ready, ui, step_inputs>>

\* await_human_evaluation that logs the answer it presents before the verdict is given
await_human_evaluation_logging(r) ==
    /\ Runs(r, "await_human_evaluation")
    /\ LET log_entry == InteractionLog(clock + 1, state[r].doc_names, Get(state[r].prompt),
                                       state[r].llm_answer, "no", NO_REASON_GIVEN,
                                       DictGet(state[r].llm_params, KEY_TEMPERATURE),
                                       DictGet(state[r].llm_params, KEY_TOP_P))
       IN  /\ Called(r, "log_interaction", TRUE, Some(log_entry))
           /\ interactions' = log_interaction(interactions, log_entry)
    /\ clock' = clock + 1
    /\ Ran(r, "await_human_evaluation")
    /\ UNCHANGED <<state, raised, interactions_cache, model_ready, ui, step_inputs>>

\* await_human_evaluation that resets the lookup result of the state
await_human_evaluation_clearing_hit(r) ==
    /\ Runs(r, "await_human_evaluation")
    /\ state' = [state EXCEPT ![r] = [@ EXCEPT !.hit = None]]
    /\ Ran(r, "await_human_evaluation")
    /\ UNCHANGED <<raised, interactions_cache, interactions, clock, model_ready, ui,
                   step_inputs, calls>>

await_human_evaluation(r) ==
    /\ Runs(r, "await_human_evaluation")
    /\ Ran(r, "await_human_evaluation")
    /\ UNCHANGED <<state, raised, interactions_cache, interactions, clock, model_ready, ui,
                   step_inputs, calls>>

\* process_human_evaluation that writes the evaluation fields before the append, so
\* that they are kept when the append fails
human_evaluation_storing_before_append(r, doc_names, prompt, llm_answer, evaluation_choice, evaluation_reason) ==
    LET log_entry == InteractionLog(clock + 1, doc_names, prompt, llm_answer,
                                    evaluation_text(evaluation_choice),
                                    reason_text(Some(evaluation_reason)),
                                    DictGet(state[r].llm_params, KEY_TEMPERATURE),
                                    DictGet(state[r].llm_params, KEY_TOP_P))
    IN  \E fault \in BOOLEAN :
           /\ Called(r, "log_interaction", ~fault, Some(log_entry))
           /\ IF ~fault
              THEN /\ interactions' = log_interaction(interactions, log_entry)
                   /\ state' = [state EXCEPT ![r] =
                          [@ EXCEPT !.interaction_to_log = Some(log_entry),
                                    !.error_message = None,
                                    !.evaluation_choice = Some(evaluation_choice),
                                    !.evaluation_reason = Some(evaluation_reason)]]
              ELSE /\ state' = [state EXCEPT ![r] =
                          [@ EXCEPT !.error_message = Some(DB_ERROR_MSG),
                                    !.evaluation_choice = Some(evaluation_choice),
                                    !.evaluation_reason = Some(evaluation_reason)]]
                   /\ UNCHANGED interactions

\* the body of process_human_evaluation with its step inputs
human_evaluation(r, doc_names, prompt, llm_answer, evaluation_choice, evaluation_reason) ==
    LET log_entry == InteractionLog(clock + 1, doc_names, prompt, llm_answer,
                                    evaluation_text(evaluation_choice),
                                    reason_text(Some(evaluation_reason)),
                                    DictGet(state[r].llm_params, KEY_TEMPERATURE),
                                    DictGet(state[r].llm_params, KEY_TOP_P))
    IN  \E fault \in BOOLEAN :
           /\ Called(r, "log_interaction", ~fault, Some(log_entry))
           /\ IF ~fault
              THEN /\ interactions' = log_interaction(interactions, log_entry)
                   /\ state' = [state EXCEPT ![r] =
                          [@ EXCEPT !.interaction_to_log = Some(log_entry),
                                    !.error_message = None,
                                    !.evaluation_choice = Some(evaluation_choice),
                                    !.evaluation_reason = Some(evaluation_reason)]]
              ELSE /\ state' = [state EXCEPT ![r] =
                          [@ EXCEPT !.error_message = Some(DB_ERROR_MSG)]]
                   /\ UNCHANGED interactions

\* the caller resumes r: app.step with the state's own doc_names, prompt and
\* llm_answer and the human's verdict and reason
process_human_evaluation(r) ==
    /\ Runs(r, "process_human_evaluation")
    /\ \E evaluation_choice \in EvaluationChoices, evaluation_reason \in Reasons :
          /\ human_evaluation(r, state[r].doc_names, Get(state[r].prompt),
                              state[r].llm_answer, evaluation_choice, evaluation_reason)
          /\ step_inputs' = [step_inputs EXCEPT ![r] =
                 Some([evaluation_choice |-> evaluation_choice,
                       evaluation_reason |-> evaluation_reason])]
    /\ clock' = clock + 1
    /\ Ran(r, "process_human_evaluation")
    /\ UNCHANGED <<raised, interactions_cache, model_ready, ui>>

\* terminal_state bound as "error"
error(r) ==
    /\ Runs(r, "error")
    /\ Ran(r, "error")
    /\ UNCHANGED <<state, raised, interactions_cache, interactions, clock, model_ready, ui,
                   step_inputs, calls>>

\* terminal_state bound as "end"
end(r) ==
    /\ Runs(r, "end")
    /\ Ran(r, "end")
    /\ UNCHANGED <<state, raised, interactions_cache, interactions, clock, model_ready, ui,
                   step_inputs, calls>>

Next ==
    \E r \in Requests :
        \/ process_inputs(r)
        \/ process_documents(r)
        \/ check_cache(r)
        \/ generate_answer(r)
        \/ classify_answer(r)
        \/ update_cache(r)
        \/ auto_log_and_terminate(r)
        \/ await_human_evaluation(r)
        \/ process_human_evaluation(r)
        \/ error(r)
        \/ end(r)

Spec == Init /\ [][Next]_vars

(* ------------- the engine driven with test doubles (tests) -------------- *)

\* process_files.return_value of the doc_processor double, and a text one space longer
EXTRACTED_TEXT ==
    <<"E","x","t","r","a","c","t","e","d"," ","t","e","x","t",".">>

EXTRACTED_TEXT_SPACED ==
    <<"E","x","t","r","a","c","t","e","d"," ","t","e","x","t","."," ">>

\* the prompt with the space in front
PROMPT_SPACED ==
    <<" ","S","u","m","m","a","r","i","z","e",".">>

ERRORS_ANSWER ==
    <<"N","o"," ","E","R","R","O","R","S"," ","w","e","r","e"," ","f","o","u","n","d",".">>

\* the params of the tests inserted in the other order
PARAMS_PERMUTED == << <<KEY_TOP_P, 95>>, <<KEY_TEMPERATURE, 20>> >>

DoubleFiles == {<<FILE_TXT>>, <<FILE_PNG>>}

\* inputs, texts and answers of the runs that exercise the cache key
KeyPrompts == {PROMPT_SUMMARIZE, PROMPT_SPACED}

KeyTexts == {EXTRACTED_TEXT, EXTRACTED_TEXT_SPACED}

KeyAnswers == {REAL_ANSWER, UNKNOWN_ANSWER}

\* inputs, texts and answers of the runs that exercise the answers
AnswerPrompts == {PROMPT_SUMMARIZE}

AnswerParams == ParamChoices \cup {PARAMS_PERMUTED}

AnswerTexts == {EXTRACTED_TEXT}

AnswerAnswers ==
    {REAL_ANSWER, OTHER_ANSWER, UNKNOWN_ANSWER, NOT_ALLOWED_ANSWER, MODEL_NOT_AVAILABLE_MSG,
     ERRORS_ANSWER}

\* app.run(inputs = ...) with the inputs of a test
process_inputs_double(r, prompts, params) ==
    /\ Runs(r, "process_inputs")
    /\ \E files \in DoubleFiles, prompt \in prompts, llm_params \in params :
          process_inputs_body(r, files, prompt, llm_params)
    /\ Ran(r, "process_inputs")
    /\ UNCHANGED <<raised, interactions_cache, interactions, clock, model_ready, ui, step_inputs>>

\* process_documents with mock_doc_processor.process_files.return_value
process_documents_double(r, texts) ==
    /\ Runs(r, "process_documents")
    /\ \E full_text \in texts : process_documents_body(r, full_text, TRUE)
    /\ Ran(r, "process_documents")
    /\ UNCHANGED <<raised, interactions_cache, interactions, clock, model_ready, ui, step_inputs>>

\* generate_answer with mock_ai_service.get_answer.return_value
generate_answer_double(r, answers) ==
    /\ Runs(r, "generate_answer")
    /\ \E answer \in answers : generate_answer_body(r, [raised |-> None, value |-> answer])
    /\ UNCHANGED <<interactions_cache, interactions, clock, model_ready, ui, step_inputs>>

InitDouble == Init /\ model_ready

NextKeys ==
    \E r \in Requests :
        \/ process_inputs_double(r, KeyPrompts, ParamChoices)
        \/ process_documents_double(r, KeyTexts)
        \/ check_cache(r)
        \/ generate_answer_double(r, KeyAnswers)
        \/ classify_answer(r)
        \/ update_cache(r)
        \/ auto_log_and_terminate(r)
        \/ await_human_evaluation(r)
        \/ process_human_evaluation(r)
        \/ error(r)
        \/ end(r)

SpecKeys == InitDouble /\ [][NextKeys]_vars

NextAnswers ==
    \E r \in Requests :
        \/ process_inputs_double(r, AnswerPrompts, AnswerParams)
        \/ process_documents_double(r, AnswerTexts)
        \/ check_cache(r)
        \/ generate_answer_double(r, AnswerAnswers)
        \/ classify_answer(r)
        \/ update_cache(r)
        \/ auto_log_and_terminate(r)
        \/ await_human_evaluation(r)
        \/ process_human_evaluation(r)
        \/ error(r)
        \/ end(r)

SpecAnswers == InitDouble /\ [][NextAnswers]_vars

(* ------ the engine with doubles, an empty answer and a caller's inputs ------ *)

\* what get_answer can return when the model's response text is blank, next to a real
\* and a predefined answer
EmptyAnswers == {<<>>, REAL_ANSWER, UNKNOWN_ANSWER}

\* document names a caller passes on resume that are not the state's
CALLER_DOC_NAMES ==
    <<"b",".","t","x","t">>

\* doc_names, prompt and llm_answer in the inputs of app.step on resume: taken from
\* app.state as the test does, or values of the caller's own
ResumeInputs(r) ==
    {[doc_names |-> state[r].doc_names, prompt |-> Get(state[r].prompt),
      llm_answer |-> state[r].llm_answer],
     [doc_names |-> CALLER_DOC_NAMES, prompt |-> PROMPT_SPACED, llm_answer |-> OTHER_ANSWER]}

\* the reason the caller passes on resume
CallerReasons == {REASON_GOOD}

\* the caller resumes r: app.step with inputs of the caller's choice
process_human_evaluation_caller(r) ==
    /\ Runs(r, "process_human_evaluation")
    /\ \E inputs \in ResumeInputs(r), evaluation_choice \in EvaluationChoices,
          evaluation_reason \in CallerReasons :
          /\ human_evaluation(r, inputs.doc_names, inputs.prompt, inputs.llm_answer,
                              evaluation_choice, evaluation_reason)
          /\ step_inputs' = [step_inputs EXCEPT ![r] =
                 Some([evaluation_choice |-> evaluation_choice,
                       evaluation_reason |-> evaluation_reason])]
    /\ clock' = clock + 1
    /\ Ran(r, "process_human_evaluation")
    /\ UNCHANGED <<raised, interactions_cache, model_ready, ui>>

NextCaller ==
    \E r \in Requests :
        \/ process_inputs_double(r, AnswerPrompts, ParamChoices)
        \/ process_documents_double(r, AnswerTexts)
        \/ check_cache(r)
        \/ generate_answer_double(r, EmptyAnswers)
        \/ classify_answer(r)
        \/ update_cache(r)
        \/ auto_log_and_terminate(r)
        \/ await_human_evaluation(r)
        \/ process_human_evaluation_caller(r)
        \/ error(r)
        \/ end(r)

SpecCaller == InitDouble /\ [][NextCaller]_vars

(* ---------- the engine built with a Config of a low ceiling ------------- *)

\* Config(MAX_CONTEXT_CHARACTERS = ...) of the runs that exercise the truncation: the
\* length of EXTRACTED_TEXT
LowCeiling == 15

SHORT_TEXT ==
    <<"T","e","x","t",".">>

LONG_TEXT == EXTRACTED_TEXT_SPACED \o EXTRACTED_TEXT

\* process_files.return_value: texts below, at, one above and far above the ceiling
CeilingTexts == {SHORT_TEXT, EXTRACTED_TEXT, EXTRACTED_TEXT_SPACED, LONG_TEXT}

\* process_documents with mock_doc_processor.process_files.return_value, in an
\* application built with Config(MAX_CONTEXT_CHARACTERS = LowCeiling)
process_documents_ceiling(r) ==
    /\ Runs(r, "process_documents")
    /\ \E full_text \in CeilingTexts :
          process_documents_config(r, full_text, TRUE, LowCeiling)
    /\ Ran(r, "process_documents")
    /\ UNCHANGED <<raised, interactions_cache, interactions, clock, model_ready, ui, step_inputs>>

NextCeiling ==
    \E r \in Requests :
        \/ process_inputs_double(r, AnswerPrompts, ParamChoices)
        \/ process_documents_ceiling(r)
        \/ check_cache(r)
        \/ generate_answer_double(r, KeyAnswers)
        \/ classify_answer(r)
        \/ update_cache(r)
        \/ auto_log_and_terminate(r)
        \/ await_human_evaluation(r)
        \/ process_human_evaluation(r)
        \/ error(r)
        \/ end(r)

SpecCeiling == InitDouble /\ [][NextCeiling]_vars

(* ------------------------------- app.py -------------------------------- *)

UI_NO_DOCUMENT_MSG ==
    <<"P","l","e","a","s","e"," ","u","p","l","o","a","d"," ","a","t"," ","l","e","a","s","t",
      " ","o","n","e"," ","d","o","c","u","m","e","n","t"," ","t","o"," ","i","n","v","e","s",
      "t","i","g","a","t","e",".">>

UI_NO_PROMPT_MSG ==
    <<"P","l","e","a","s","e"," ","e","n","t","e","r"," ","a"," ","p","r","o","m","p","t"," ",
      "t","o"," ","c","o","n","t","i","n","u","e",".">>

UNEXPECTED_ERROR_MSG ==
    <<"A","n"," ","u","n","e","x","p","e","c","t","e","d"," ","s","y","s","t","e","m"," ","e",
      "r","r","o","r"," ","o","c","c","u","r","r","e","d","."," ","P","l","e","a","s","e"," ",
      "c","h","e","c","k"," ","t","h","e"," ","l","o","g","s"," ","a","n","d"," ","t","r","y",
      " ","a","g","a","i","n",".">>

\* the number of evaluations submitted in one session
MaxSubmissions == 2

\* temperature 0.55 and top_p 0.65 set on the sliders, in hundredths
PARAMS_FROM_SLIDERS == << <<KEY_TEMPERATURE, 55>>, <<KEY_TOP_P, 65>> >>

UiParams == ParamChoices \cup {PARAMS_FROM_SLIDERS}

UiPrompts == {PROMPT_SUMMARIZE, PROMPT_BLANK}

\* get_answer.return_value of the ai_service double: a real answer, a predefined one
\* and one with the word error in capitals
UiAnswers == {REAL_ANSWER, UNKNOWN_ANSWER, ERRORS_ANSWER}

\* evaluation_radio: nothing selected, or one of the two options
UiChoices == {None} \cup {Some(choice) : choice \in EvaluationChoices}

\* the classification of _handle_investigation without the test for the word error
AppUI_is_real_answer_without_error_test(answer) ==
    answer \notin {UNKNOWN_ANSWER, NOT_ALLOWED_ANSWER}

\* _handle_investigation, the classification of the answer
AppUI_is_real_answer(answer) ==
    /\ answer \notin {UNKNOWN_ANSWER, NOT_ALLOWED_ANSWER}
    /\ ~Contains(Lower(answer), ERROR_WORD)

\* _handle_evaluation, evaluation_text
AppUI_evaluation_text(choice) == IF Contains(choice, YES_MARKER) THEN "yes" ELSE "no"

\* _handle_evaluation, reason_text
AppUI_reason_text(eval_reason) ==
    IF eval_reason # <<>> /\ Strip(eval_reason) # <<>>
    THEN Strip(eval_reason) ELSE NO_REASON_GIVEN

\* a handler of session r ends: handler ran, made the calls, and raised gr_error or
\* none; outputs are written by the caller
Handled(session, handler, made, gr_error) ==
    [session EXCEPT !.handled = Append(@, handler), !.calls = @ \o made, !.error = gr_error]

\* AppUI._handle_investigation with the values of file_uploader, prompt_input and the
\* sliders; full_text: what process_files returned; answer: what get_answer did,
\* [raised, value], recorded with the call; fault: log_interaction raises sqlite3.Error. The returned tuple is
\* written to answer_output, evaluation_panel and the five gr.State values; a gr.Error
\* writes nothing.
handle_investigation(r, files, prompt, temperature, top_p, full_text, answer, fault) ==
    LET doc_names == Join(NAME_SEPARATOR, [i \in 1..Len(files) |-> Basename(files[i])])
        context == IF Len(full_text) > MAX_CONTEXT_CHARACTERS
                   THEN SubSeq(full_text, 1, MAX_CONTEXT_CHARACTERS)
                   ELSE full_text
        validated == [op |-> "validate_files", ok |-> IsNone(validate_files(files)),
                      entry |-> None]
        processed == [op |-> "process_files", ok |-> TRUE,
                      entry |-> Some([full_text |-> full_text])]
        asked == [op |-> "get_answer", ok |-> IsNone(answer.raised),
                  entry |-> Some([full_text_context |-> context, returned |-> answer.value])]
        log_entry == InteractionLog(clock + 1, doc_names, prompt, answer.value, "no",
                                    NO_REASON_GIVEN, temperature, top_p)
        logged == [op |-> "log_interaction", ok |-> ~fault, entry |-> Some(log_entry)]
        name == "_handle_investigation"
        started == [ui[r] EXCEPT !.inputs = Some([files |-> files, prompt |-> prompt,
                                                  temperature |-> temperature,
                                                  top_p |-> top_p])]
    IN  IF Len(files) = 0
        THEN /\ ui' = [ui EXCEPT ![r] = Handled(started, name, <<>>, Some(UI_NO_DOCUMENT_MSG))]
             /\ UNCHANGED <<interactions, clock>>
        ELSE IF Strip(prompt) = <<>>
        THEN /\ ui' = [ui EXCEPT ![r] = Handled(started, name, <<>>, Some(UI_NO_PROMPT_MSG))]
             /\ UNCHANGED <<interactions, clock>>
        ELSE IF ~IsNone(validate_files(files))
        THEN /\ ui' = [ui EXCEPT ![r] = Handled(started, name, <<validated>>, validate_files(files))]
             /\ UNCHANGED <<interactions, clock>>
        ELSE IF ~IsNone(answer.raised)
        THEN /\ ui' = [ui EXCEPT ![r] = Handled(started, name, <<validated, processed, asked>>,
                                                Some(UNEXPECTED_ERROR_MSG))]
             /\ UNCHANGED <<interactions, clock>>
        ELSE IF AppUI_is_real_answer(answer.value)
        THEN /\ ui' = [ui EXCEPT ![r] =
                    [Handled(started, name, <<validated, processed, asked>>, None)
                        EXCEPT !.answer_output = Some(answer.value),
                               !.evaluation_panel = TRUE,
                               !.state_doc_names = Some(doc_names),
                               !.state_last_prompt = Some(prompt),
                               !.state_last_answer = Some(answer.value),
                               !.state_temperature = Some(temperature),
                               !.state_top_p = Some(top_p)]]
             /\ UNCHANGED <<interactions, clock>>
        ELSE /\ ui' = [ui EXCEPT ![r] =
                    [Handled(started, name, <<validated, processed, asked, logged>>, None)
                        EXCEPT !.answer_output = Some(answer.value),
                               !.evaluation_panel = FALSE,
                               !.state_doc_names = None,
                               !.state_last_prompt = None,
                               !.state_last_answer = None,
                               !.state_temperature = None,
                               !.state_top_p = None]]
             /\ interactions' = IF fault THEN interactions
                                ELSE log_interaction(interactions, log_entry)
             /\ clock' = clock + 1

\* _handle_evaluation that resets the stored values when the append fails as well
handle_evaluation_clearing_on_failure(r, doc_names, prompt, answer, choice, eval_reason, temperature, top_p, fault) ==
    LET name == "_handle_evaluation"
        submitted == [choice |-> choice, eval_reason |-> eval_reason]
        invalid == \/ IsNone(doc_names) \/ IsNone(prompt) \/ IsNone(answer)
                   \/ IsNone(temperature) \/ IsNone(top_p)
    IN  IF IsNone(choice) \/ Get(choice) = <<>>
        THEN /\ \E applied \in BOOLEAN :
                   ui' = [ui EXCEPT ![r] =
                       [Handled(@, name, <<>>, None)
                           EXCEPT !.submissions = Append(@, submitted),
                                  !.evaluation_panel = IF applied THEN TRUE ELSE @]]
             /\ UNCHANGED <<interactions, clock>>
        ELSE IF invalid
        THEN /\ ui' = [ui EXCEPT ![r] =
                    [Handled(@, name, <<>>, None)
                        EXCEPT !.submissions = Append(@, submitted),
                               !.evaluation_panel = TRUE]]
             /\ UNCHANGED <<interactions, clock>>
        ELSE LET log_entry == InteractionLog(clock + 1, Get(doc_names), Get(prompt),
                                             Get(answer),
                                             AppUI_evaluation_text(Get(choice)),
                                             AppUI_reason_text(eval_reason),
                                             Get(temperature), Get(top_p))
                 logged == [op |-> "log_interaction", ok |-> ~fault,
                            entry |-> Some(log_entry)]
             IN  /\ IF fault
                    THEN /\ ui' = [ui EXCEPT ![r] =
                                [Handled(@, name, <<logged>>, None)
                                    EXCEPT !.submissions = Append(@, submitted),
                                           !.evaluation_panel = TRUE,
                                           !.state_doc_names = None,
                                           !.state_last_prompt = None,
                                           !.state_last_answer = None]]
                         /\ UNCHANGED interactions
                    ELSE /\ ui' = [ui EXCEPT ![r] =
                                [Handled(@, name, <<logged>>, None)
                                    EXCEPT !.submissions = Append(@, submitted),
                                           !.answer_output = None,
                                           !.evaluation_panel = FALSE,
                                           !.state_doc_names = None,
                                           !.state_last_prompt = None,
                                           !.state_last_answer = None]]
                         /\ interactions' = log_interaction(interactions, log_entry)
                 /\ clock' = clock + 1

\* AppUI._handle_evaluation with the gr.State values, the radio and the textbox as
\* Optional values; fault: log_interaction raises sqlite3.Error. Of the returned tuple
\* the first eleven values are written to the eleven outputs of evaluation_button.click;
\* the branch without a choice returns nine values, which the runtime either writes
\* (applied) or refuses as too few, writing nothing.
handle_evaluation(r, doc_names, prompt, answer, choice, eval_reason, temperature, top_p, fault) ==
    LET name == "_handle_evaluation"
        submitted == [choice |-> choice, eval_reason |-> eval_reason]
        invalid == \/ IsNone(doc_names) \/ IsNone(prompt) \/ IsNone(answer)
                   \/ IsNone(temperature) \/ IsNone(top_p)
    IN  IF IsNone(choice) \/ Get(choice) = <<>>
        THEN /\ \E applied \in BOOLEAN :
                   ui' = [ui EXCEPT ![r] =
                       [Handled(@, name, <<>>, None)
                           EXCEPT !.submissions = Append(@, submitted),
                                  !.evaluation_panel = IF applied THEN TRUE ELSE @]]
             /\ UNCHANGED <<interactions, clock>>
        ELSE IF invalid
        THEN /\ ui' = [ui EXCEPT ![r] =
                    [Handled(@, name, <<>>, None)
                        EXCEPT !.submissions = Append(@, submitted),
                               !.evaluation_panel = TRUE]]
             /\ UNCHANGED <<interactions, clock>>
        ELSE LET log_entry == InteractionLog(clock + 1, Get(doc_names), Get(prompt),
                                             Get(answer),
                                             AppUI_evaluation_text(Get(choice)),
                                             AppUI_reason_text(eval_reason),
                                             Get(temperature), Get(top_p))
                 logged == [op |-> "log_interaction", ok |-> ~fault,
                            entry |-> Some(log_entry)]
             IN  /\ IF fault
                    THEN /\ ui' = [ui EXCEPT ![r] =
                                [Handled(@, name, <<logged>>, None)
                                    EXCEPT !.submissions = Append(@, submitted),
                                           !.evaluation_panel = TRUE]]
                         /\ UNCHANGED interactions
                    ELSE /\ ui' = [ui EXCEPT ![r] =
                                [Handled(@, name, <<logged>>, None)
                                    EXCEPT !.submissions = Append(@, submitted),
                                           !.answer_output = None,
                                           !.evaluation_panel = FALSE,
                                           !.state_doc_names = None,
                                           !.state_last_prompt = None,
                                           !.state_last_answer = None]]
                         /\ interactions' = log_interaction(interactions, log_entry)
                 /\ clock' = clock + 1

\* the sessions driven in the runs that set the UI beside the engine
UiSessions == {1}

\* submit_btn.click in a session that has not investigated yet, with the doubles of
\* tests/test_app.py behind it
submit_btn_click(r) ==
    /\ ui[r].handled = <<>>
    /\ \E files \in DoubleFiles, prompt \in UiPrompts, llm_params \in UiParams,
          answer \in UiAnswers, fault \in BOOLEAN :
          handle_investigation(r, files, prompt, DictGet(llm_params, KEY_TEMPERATURE),
                               DictGet(llm_params, KEY_TOP_P), EXTRACTED_TEXT,
                               [raised |-> None, value |-> answer], fault)
    /\ UNCHANGED <<state, position, raised, interactions_cache, model_ready, history, calls,
                   step_inputs>>

\* evaluation_button.click: the button lies in the evaluation panel
evaluation_button_click(r) ==
    /\ ui[r].evaluation_panel
    /\ Len(ui[r].submissions) < MaxSubmissions
    /\ \E choice \in UiChoices, eval_reason \in Reasons, fault \in BOOLEAN :
          handle_evaluation(r, ui[r].state_doc_names, ui[r].state_last_prompt,
                            ui[r].state_last_answer, choice, eval_reason,
                            ui[r].state_temperature, ui[r].state_top_p, fault)
    /\ UNCHANGED <<state, position, raised, interactions_cache, model_ready, history, calls,
                   step_inputs>>

NextUI ==
    \E r \in UiSessions :
        \/ submit_btn_click(r)
        \/ evaluation_button_click(r)
        \/ process_inputs_double(r, AnswerPrompts, UiParams)
        \/ process_documents_double(r, AnswerTexts)
        \/ check_cache(r)
        \/ generate_answer_double(r, UiAnswers)
        \/ classify_answer(r)
        \/ update_cache(r)
        \/ auto_log_and_terminate(r)
        \/ await_human_evaluation(r)
        \/ process_human_evaluation(r)
        \/ error(r)
        \/ end(r)

SpecUI == InitDouble /\ [][NextUI]_vars

(* ------------------ the cache store called directly -------------------- *)

\* the number of store calls made in all
MaxStoreCalls == 3

StoreKeys ==
    {compute_cache_key(EXTRACTED_TEXT, prompt, PARAMS_PERMUTED) : prompt \in KeyPrompts}

StoreAnswers == {REAL_ANSWER, OTHER_ANSWER, <<>>}

\* the store calls made so far, as <<caller, index>>
StoreCalls == {c \in Requests \X (1..MaxStoreCalls) : c[2] <= Len(calls[c[1]])}

StoreCallsMade == Cardinality(StoreCalls)

\* caller r calls db_manager.set_cached_answer(cache_key, answer)
store_set(r) ==
    /\ StoreCallsMade < MaxStoreCalls
    /\ \E cache_key \in StoreKeys, answer \in StoreAnswers, fault \in BOOLEAN :
          /\ interactions_cache' =
                 set_cached_answer(interactions_cache, cache_key, answer, clock + 1, fault)
          /\ Called(r, "set_cached_answer", ~fault,
                    Some([cache_key |-> cache_key, llm_answer |-> Some(answer),
                          at |-> clock + 1]))
    /\ clock' = clock + 1
    /\ UNCHANGED <<state, position, raised, interactions, model_ready, ui, history, step_inputs>>

\* caller r calls db_manager.get_cached_answer(cache_key); llm_answer is what it returned
store_get(r) ==
    /\ StoreCallsMade < MaxStoreCalls
    /\ \E cache_key \in StoreKeys, fault \in BOOLEAN :
          Called(r, "get_cached_answer", ~fault,
                 Some([cache_key |-> cache_key,
                       llm_answer |-> get_cached_answer(interactions_cache, cache_key, fault),
                       at |-> clock + 1]))
    /\ clock' = clock + 1
    /\ UNCHANGED <<state, position, raised, interactions_cache, interactions, model_ready, ui,
                   history, step_inputs>>

NextStore == \E r \in Requests : store_set(r) \/ store_get(r)

SpecStore == InitDouble /\ [][NextStore]_vars

(* ------------------------------- claims -------------------------------- *)

\* the calls of collaborator method op made by r
CallsOf(r, op) == SelectSeq(calls[r], LAMBDA c : c.op = op)

\* r has run action a
HasRun(r, a) == \E i \in 1..Len(history[r]) : history[r][i] = a

\* r has run action a directly before action b, once
RanInOrder(r, a, b) ==
    \E i \in 1..(Len(history[r]) - 1) : history[r][i] = a /\ history[r][i + 1] = b

\* number of rows of table interactions equal to entry
RowsEqual(entry) == Cardinality({i \in 1..Len(interactions) : interactions[i] = entry})

\* r has stopped: no action of r can run
Stopped(r) == ~IsNone(raised[r]) \/ NextAction(position[r], state[r]) = "none"

\* the collaborators behind validation
LaterCollaborators ==
    {"process_files", "get_cached_answer", "get_answer", "set_cached_answer", "log_interaction"}

REASON_GOOD_STRIPPED ==
    <<"G","o","o","d",".">>

FAILED_EXTRACTION_TEXT ==
    <<"-","-","-"," ","C","O","N","T","E","N","T"," ","F","R","O","M"," ","a",".","t","x","t",
      " ","-","-","-","\n","[","E","r","r","o","r",":"," ","F","i","l","e"," ","n","o","t"," ",
      "f","o","u","n","d",":"," ","a",".","t","x","t","]">>

PARAMS_JSON ==
    <<"{","\"","t","e","m","p","e","r","a","t","u","r","e","\"",":"," ","0",".","2",","," ",
      "\"","t","o","p","_","p","\"",":"," ","0",".","9","5","}">>

C2_MissCallsModelOnce ==
    \A r \in Requests :
        /\ IsNone(state[r].hit) => Len(CallsOf(r, "get_answer")) = 0
        /\ state[r].hit = Some(FALSE)
           => /\ Len(CallsOf(r, "get_answer"))
                    = IF position[r] = "check_cache" /\ IsNone(raised[r]) THEN 0 ELSE 1
              /\ Len(CallsOf(r, "get_answer")) = 1
                    => /\ calls[r][Len(calls[r])].op = "get_answer"
                          \/ HasRun(r, "classify_answer")
                       /\ \E i \in 1..(Len(calls[r]) - 1) :
                             /\ calls[r][i].op = "get_cached_answer"
                             /\ calls[r][i + 1].op = "get_answer"
              /\ HasRun(r, "classify_answer")
                    => /\ RanInOrder(r, "check_cache", "generate_answer")
                       /\ RanInOrder(r, "generate_answer", "classify_answer")

C2_Witness ==
    \E r1, r2 \in Requests :
        /\ state[r1].hit = Some(FALSE) /\ CallsOf(r1, "get_cached_answer")[1].ok
        /\ HasRun(r1, "classify_answer")
        /\ state[r2].hit = Some(FALSE) /\ ~CallsOf(r2, "get_cached_answer")[1].ok
        /\ HasRun(r2, "classify_answer")

\* C3: a request classified predefined_answer has never run update_cache and has made
\* no call of set_cached_answer, so no row of interactions_cache was written by it.
C3_PredefinedNeverCached ==
    \A r \in Requests :
        state[r].classification = Some("predefined_answer")
        => /\ ~HasRun(r, "update_cache")
           /\ Len(CallsOf(r, "set_cached_answer")) = 0
           /\ \A row \in interactions_cache : row.llm_answer # state[r].llm_answer

C3_Witness ==
    \E r \in Requests :
        /\ state[r].classification = Some("predefined_answer")
        /\ position[r] = "end"

\* C4 as stated: a request that has reached end after being classified
\* predefined_answer has appended exactly one entry to the interaction log, with
\* output_passed "no" and eval_reason "no reason given".
C4_AsStated ==
    \A r \in Requests :
        position[r] = "end" /\ state[r].classification = Some("predefined_answer")
        => /\ Len(SelectSeq(CallsOf(r, "log_interaction"), LAMBDA c : c.ok)) = 1
           /\ ~IsNone(state[r].interaction_to_log)
           /\ RowsEqual(Get(state[r].interaction_to_log)) = 1
           /\ Get(state[r].interaction_to_log).output_passed = "no"
           /\ Get(state[r].interaction_to_log).eval_reason = NO_REASON_GIVEN

\* C4 amended: a request that has reached end after being classified
\* predefined_answer has built exactly one InteractionLog entry, with output_passed
\* "no" and eval_reason "no reason given", and passed it to log_interaction once; the
\* interaction log holds that entry exactly once if the append succeeded, and holds
\* no entry of the request if the append failed with a storage error.
C4_AutoLogOnceUnlessStorageFails ==
    \A r \in Requests :
        position[r] = "end" /\ state[r].classification = Some("predefined_answer")
        => LET logged == CallsOf(r, "log_interaction")
           IN  /\ Len(logged) = 1
               /\ Get(logged[1].entry).output_passed = "no"
               /\ Get(logged[1].entry).eval_reason = NO_REASON_GIVEN
               /\ Get(logged[1].entry).answer = state[r].llm_answer
               /\ logged[1].ok => /\ RowsEqual(Get(logged[1].entry)) = 1
                                  /\ state[r].interaction_to_log = logged[1].entry
               /\ ~logged[1].ok => /\ RowsEqual(Get(logged[1].entry)) = 0
                                   /\ IsNone(state[r].interaction_to_log)

C4_Witness ==
    \E r1, r2 \in Requests :
        /\ position[r1] = "end" /\ state[r1].classification = Some("predefined_answer")
        /\ CallsOf(r1, "log_interaction")[1].ok
        /\ position[r2] = "end" /\ state[r2].classification = Some("predefined_answer")
        /\ ~CallsOf(r2, "log_interaction")[1].ok

\* the verdict and reason a resume is expected to log
ExpectedVerdict(choice) == IF choice = CHOICE_YES THEN "yes" ELSE "no"

ExpectedReason(reason) == IF reason = REASON_GOOD THEN REASON_GOOD_STRIPPED ELSE NO_REASON_GIVEN

\* C5 as stated: a request resumed from await_human_evaluation that has reached end
\* has appended exactly one entry to the interaction log, with the verdict of the
\* choice and the stripped reason (or "no reason given").
C5_AsStated ==
    \A r \in Requests :
        position[r] = "end" /\ HasRun(r, "process_human_evaluation")
        => /\ Len(SelectSeq(CallsOf(r, "log_interaction"), LAMBDA c : c.ok)) = 1
           /\ ~IsNone(state[r].interaction_to_log)
           /\ RowsEqual(Get(state[r].interaction_to_log)) = 1
           /\ Get(state[r].interaction_to_log).output_passed
                 = ExpectedVerdict(Get(step_inputs[r]).evaluation_choice)
           /\ Get(state[r].interaction_to_log).eval_reason
                 = ExpectedReason(Get(step_inputs[r]).evaluation_reason)

\* C5 amended: resuming a request suspended at await_human_evaluation with a verdict
\* and a reason runs process_human_evaluation and then end, and builds exactly one
\* InteractionLog entry whose output_passed is "yes" if the choice contains the yes
\* marker and "no" otherwise, and whose eval_reason is the stripped reason, or "no
\* reason given" for an empty or whitespace reason; the interaction log holds that
\* entry exactly once if the append succeeded, and no entry of the request if the
\* append failed with a storage error.
C5_HumanLogOnceUnlessStorageFails ==
    \A r \in Requests :
        HasRun(r, "process_human_evaluation")
        => LET logged == CallsOf(r, "log_interaction")
               given == Get(step_inputs[r])
           IN  /\ RanInOrder(r, "await_human_evaluation", "process_human_evaluation")
               /\ position[r] \in {"process_human_evaluation", "end"}
               /\ position[r] = "process_human_evaluation"
                     => NextAction(position[r], state[r]) = "end"
               /\ Len(logged) = 1
               /\ Get(logged[1].entry).output_passed = ExpectedVerdict(given.evaluation_choice)
               /\ Get(logged[1].entry).eval_reason = ExpectedReason(given.evaluation_reason)
               /\ logged[1].ok => /\ RowsEqual(Get(logged[1].entry)) = 1
                                  /\ state[r].interaction_to_log = logged[1].entry
               /\ ~logged[1].ok => /\ RowsEqual(Get(logged[1].entry)) = 0
                                   /\ IsNone(state[r].interaction_to_log)

C5_Witness ==
    \E r \in Requests :
        /\ position[r] = "end"
        /\ step_inputs[r] = Some([evaluation_choice |-> CHOICE_YES,
                                  evaluation_reason |-> REASON_GOOD])
        /\ CallsOf(r, "log_interaction")[1].ok
        /\ Get(state[r].interaction_to_log).output_passed = "yes"
        /\ Get(state[r].interaction_to_log).eval_reason = REASON_GOOD_STRIPPED

\* the positions of a request that was served from the cache
ServedPositions ==
    {"check_cache", "classify_answer", "update_cache", "await_human_evaluation",
     "process_human_evaluation", "end"}

C7_InvalidDocumentsEndInError ==
    \A r \in Requests :
        /\ position[r] # "start"
        /\ Get(state[r].files) \in {<<>>, <<FILE_PNG>>, <<FILE_TXT, FILE_PNG>>}
        => /\ position[r] \in {"process_inputs", "error"}
           /\ position[r] = "process_inputs" => NextAction(position[r], state[r]) = "error"
           /\ ~IsNone(state[r].error_message) /\ Get(state[r].error_message) # <<>>
           /\ \A i \in 1..Len(calls[r]) : calls[r][i].op \notin LaterCollaborators
           /\ IsNone(state[r].interaction_to_log)
           /\ IsNone(state[r].cache_key)

C7_Witness ==
    \E r1, r2 \in Requests :
        /\ position[r1] = "error" /\ state[r1].files = Some(<<>>)
        /\ position[r2] = "error" /\ state[r2].files = Some(<<FILE_TXT, FILE_PNG>>)

\* C8: a request with an empty or whitespace-only prompt goes from process_inputs to
\* error only: no extraction, cache lookup, model call, cache put or log append is
\* made for it.
C8_BlankPromptIsInputError ==
    \A r \in Requests :
        position[r] # "start" /\ state[r].prompt = Some(PROMPT_BLANK)
        => /\ position[r] \in {"process_inputs", "error"}
           /\ \A i \in 1..Len(calls[r]) : calls[r][i].op \notin LaterCollaborators

\* the answers get_answer gives for a failed model call
FailureAnswers ==
    {MODEL_NOT_AVAILABLE_MSG, SERVICE_ERROR_MSG, RATE_LIMIT_MSG, NOT_ALLOWED_ANSWER}

\* C9: every failure of the model collaborator yields an answer classified
\* predefined_answer: no failure leaves generate_answer as an exception, and a request
\* whose model call failed is never put into the cache nor presented for human
\* evaluation, and ends auto-logged with verdict "no".
C9_ModelFailureIsPredefined ==
    \A r \in Requests :
        /\ Len(CallsOf(r, "get_answer")) = 1
        /\ ~CallsOf(r, "get_answer")[1].ok \/ state[r].llm_answer \in FailureAnswers
        => /\ IsNone(raised[r])
           /\ ~IsNone(state[r].classification)
                 => state[r].classification = Some("predefined_answer")
           /\ Len(CallsOf(r, "set_cached_answer")) = 0
           /\ ~HasRun(r, "await_human_evaluation")
           /\ Stopped(r) => /\ position[r] = "end"
                            /\ Len(CallsOf(r, "log_interaction")) = 1

\* r's extraction met a failure: some loader answered with its error text
ExtractionFailed(r) ==
    Len(CallsOf(r, "process_files")) = 1 /\ ~CallsOf(r, "process_files")[1].ok

AnswerBeforeWrite(r) ==
    IF state[r].hit = Some(TRUE)
    THEN Get(CallsOf(r, "get_cached_answer")[1].entry).llm_answer
    ELSE IF model_ready THEN EMPTY_PROMPT_MSG ELSE MODEL_NOT_AVAILABLE_MSG

\* C11: a storage failure of the cache put or of a log append raises nothing out of
\* the action, never leads to the error state and leaves llm_answer as it was: after a
\* failed put the request goes on from update_cache to await_human_evaluation with
\* the produced answer, and after a failed log append it goes on to end.
C11_StorageWriteFailureIsNotFatal ==
    \A r \in Requests :
        /\ (\E i \in 1..Len(calls[r]) : calls[r][i].op = "set_cached_answer" /\ ~calls[r][i].ok)
           => /\ ~HasRun(r, "error") /\ ~HasRun(r, "auto_log_and_terminate")
              /\ IsNone(raised[r])
              /\ position[r] \in {"update_cache", "await_human_evaluation",
                                  "process_human_evaluation", "end"}
              /\ position[r] = "update_cache"
                    => NextAction(position[r], state[r]) = "await_human_evaluation"
              /\ state[r].llm_answer = AnswerBeforeWrite(r)
              /\ state[r].classification = Some("real_answer")
        /\ (\E i \in 1..Len(calls[r]) : calls[r][i].op = "log_interaction" /\ ~calls[r][i].ok)
           => /\ ~HasRun(r, "error")
              /\ IsNone(raised[r])
              /\ position[r] \in {"auto_log_and_terminate", "process_human_evaluation", "end"}
              /\ position[r] # "end" => NextAction(position[r], state[r]) = "end"
              /\ state[r].llm_answer = AnswerBeforeWrite(r)

C11_Witness ==
    \E r1, r2 \in Requests :
        /\ position[r1] = "await_human_evaluation"
        /\ ~CallsOf(r1, "set_cached_answer")[1].ok
        /\ state[r1].llm_answer = EMPTY_PROMPT_MSG
        /\ position[r2] = "end"
        /\ HasRun(r2, "process_human_evaluation")
        /\ ~CallsOf(r2, "log_interaction")[1].ok
        /\ state[r2].llm_answer = EMPTY_PROMPT_MSG

\* C12: a storage fault during get_cached_answer raises nothing and is answered as
\* absent: check_cache sets hit = false, leaves llm_answer empty and stores the key,
\* exactly as on a genuine miss, also when the table holds a row under the key, and
\* the request goes on to generate_answer, where the model is called.
C12_GetFaultIsAMiss ==
    \A r \in Requests :
        LET looked == CallsOf(r, "get_cached_answer")
        IN  Len(looked) = 1 /\ ~looked[1].ok
            => /\ state[r].hit = Some(FALSE)
               /\ state[r].cache_key
                     = Some(compute_cache_key(state[r].extracted_text, Get(state[r].prompt),
                                              state[r].llm_params))
               /\ Len(CallsOf(r, "get_answer")) = 0
                     => /\ IsNone(raised[r])
                        /\ position[r] = "check_cache"
                        /\ state[r].llm_answer = <<>>
                        /\ NextAction(position[r], state[r]) = "generate_answer"
               /\ position[r] # "check_cache" => Len(CallsOf(r, "get_answer")) = 1
               /\ HasRun(r, "classify_answer")
                     => RanInOrder(r, "check_cache", "generate_answer")

C12_Witness ==
    \E r \in Requests :
        /\ Len(CallsOf(r, "get_cached_answer")) = 1
        /\ ~CallsOf(r, "get_cached_answer")[1].ok
        /\ ~IsNone(CallsOf(r, "get_cached_answer")[1].entry)
        /\ HasRun(r, "generate_answer")
        /\ Len(CallsOf(r, "get_answer")) = 1

\* C13: no step of the engine replaces the answer of an existing cache row by a
\* different answer: a row that is in interactions_cache after a step under a key the
\* table held before the step carries the answer the table held.
C13_StoredAnswerNeverReplaced ==
    [][\A old \in interactions_cache : \A new \in interactions_cache' :
          new.cache_key = old.cache_key => new.llm_answer = old.llm_answer]_vars

\* r called the model, its answer was classified real and its put succeeded
InvokedAndCached(r) ==
    /\ Len(CallsOf(r, "get_answer")) = 1
    /\ state[r].classification = Some("real_answer")
    /\ Len(CallsOf(r, "set_cached_answer")) = 1
    /\ CallsOf(r, "set_cached_answer")[1].ok

\* C14: among the requests with one and the same cache key, at most one has called
\* the model, received a real answer and put it into the cache successfully; every
\* other one was served from the cache.
C14_ModelInvokedOncePerFingerprint ==
    \A r1, r2 \in Requests :
        /\ InvokedAndCached(r1) /\ InvokedAndCached(r2)
        /\ state[r1].cache_key = state[r2].cache_key
        => r1 = r2

\* the class each answer of the doubles belongs to
ExpectedClass(answer) ==
    IF answer \in {REAL_ANSWER, OTHER_ANSWER} THEN "real_answer" ELSE "predefined_answer"

\* C18: classify_answer gives every answer exactly one class: predefined_answer for
\* UNKNOWN_ANSWER, NOT_ALLOWED_ANSWER and for an answer with "error" in it in any
\* letter case ("Error: The AI model ...", "No ERRORS were found."), real_answer for
\* the others; is_real_answer is true exactly when the class is real_answer, and both
\* are unset before classify_answer has run.
C18_ClassifierTotalAndExact ==
    \A r \in Requests :
        /\ HasRun(r, "classify_answer")
           => /\ state[r].classification = Some(ExpectedClass(state[r].llm_answer))
              /\ state[r].is_real_answer = (state[r].classification = Some("real_answer"))
        /\ ~HasRun(r, "classify_answer")
           => IsNone(state[r].classification) /\ ~state[r].is_real_answer

C18_Witness ==
    \E r1, r2 \in Requests :
        /\ state[r1].llm_answer = ERRORS_ANSWER
        /\ state[r1].classification = Some("predefined_answer")
        /\ state[r2].llm_answer = OTHER_ANSWER
        /\ state[r2].classification = Some("real_answer")
        /\ state[r2].is_real_answer

\* C16: the cache key is the digest of extracted_text, prompt, the params serialised
\* with their keys in sorted order, and the model name: params with the same items
\* inserted in either order give the one key, and requests with the same text, prompt
\* and params items have the same key.
C16_KeyIgnoresInsertionOrder ==
    \A r1, r2 \in Requests :
        ~IsNone(state[r1].cache_key)
        => /\ Get(state[r1].cache_key).sha256_of
                 = state[r1].extracted_text \o Get(state[r1].prompt) \o PARAMS_JSON
                   \o LLM_MODEL_NAME
           /\ /\ ~IsNone(state[r2].cache_key)
              /\ state[r1].extracted_text = state[r2].extracted_text
              /\ state[r1].prompt = state[r2].prompt
              /\ {state[r1].llm_params[i] : i \in 1..Len(state[r1].llm_params)}
                    = {state[r2].llm_params[i] : i \in 1..Len(state[r2].llm_params)}
              => state[r1].cache_key = state[r2].cache_key

C16_Witness ==
    \E r1, r2 \in Requests :
        /\ state[r1].llm_params = PARAMS_PERMUTED
        /\ state[r2].llm_params # PARAMS_PERMUTED
        /\ ~IsNone(state[r1].cache_key)
        /\ state[r1].cache_key = state[r2].cache_key
        /\ InvokedAndCached(r1)
        /\ state[r2].hit = Some(TRUE)

\* C17: two requests have the same cache key only if their extracted_text, their
\* prompt and their serialised params are each the same, so that a hit serves an
\* answer that was put for the same extracted_text and prompt.
C17_SameKeyOnlyForSameInputs ==
    \A r1, r2 \in Requests :
        /\ ~IsNone(state[r1].cache_key)
        /\ state[r1].cache_key = state[r2].cache_key
        => /\ state[r1].extracted_text = state[r2].extracted_text
           /\ state[r1].prompt = state[r2].prompt
           /\ json_dumps(state[r1].llm_params) = json_dumps(state[r2].llm_params)

\* the store call c = <<caller, index>>
StoreCall(c) == calls[c[1]][c[2]]

\* the successful puts under the key of get g made before g
PutsBefore(g) ==
    {c \in StoreCalls :
        /\ StoreCall(c).op = "set_cached_answer" /\ StoreCall(c).ok
        /\ Get(StoreCall(c).entry).cache_key = Get(StoreCall(g).entry).cache_key
        /\ Get(StoreCall(c).entry).at < Get(StoreCall(g).entry).at}

\* the answer of the last of them
LastPutAnswer(g) ==
    Get(StoreCall(CHOOSE c \in PutsBefore(g) :
                     \A d \in PutsBefore(g) :
                        Get(StoreCall(d).entry).at <= Get(StoreCall(c).entry).at).entry).llm_answer

\* C15 as stated: every get(k) made after a successful put(k, a), with no put under k
\* in between, returns a.
C15_AsStated ==
    \A g \in StoreCalls :
        StoreCall(g).op = "get_cached_answer" /\ PutsBefore(g) # {}
        => Get(StoreCall(g).entry).llm_answer = LastPutAnswer(g)

\* C15 amended: every get(k) that meets no storage fault and is made after a
\* successful put(k, a), with no successful put under k in between, returns a, for
\* every key and every answer string, the empty string included; a get that meets a
\* storage fault returns absent, and so does a get under a key with no successful put.
C15_GetReturnsLastPutUnlessFault ==
    \A g \in StoreCalls :
        StoreCall(g).op = "get_cached_answer"
        => /\ StoreCall(g).ok /\ PutsBefore(g) # {}
                 => Get(StoreCall(g).entry).llm_answer = LastPutAnswer(g)
           /\ ~StoreCall(g).ok \/ PutsBefore(g) = {}
                 => IsNone(Get(StoreCall(g).entry).llm_answer)

C15_Witness ==
    \E g1, g2, c \in StoreCalls :
        /\ g1 # g2
        /\ StoreCall(g1).op = "get_cached_answer" /\ StoreCall(g1).ok
        /\ StoreCall(g2).op = "get_cached_answer" /\ StoreCall(g2).ok
        /\ PutsBefore(g1) = {c} /\ PutsBefore(g2) = {c}
        /\ Get(StoreCall(g1).entry).llm_answer = Some(<<>>)
        /\ Get(StoreCall(g2).entry).llm_answer = Some(<<>>)

\* C19: no exception of a collaborator (document extraction, the model call, cache
\* get and put, log append) leaves an engine action: in every reachable state no
\* request has stopped on a raised exception.
C19_NoExceptionLeavesAnAction ==
    \A r \in Requests : IsNone(raised[r])

\* C20: every request comes to a decisive outcome: a request that can take no further
\* step is at end, with a predefined answer auto-logged or after its resume, or at
\* error with an error_message; a request at await_human_evaluation holds a real
\* answer; and no action runs twice for a request (the transition graph has no
\* cycle).
C20_EveryRequestDecides ==
    \A r \in Requests :
        /\ Stopped(r)
           => \/ /\ position[r] = "end"
                 /\ \/ /\ HasRun(r, "auto_log_and_terminate")
                       /\ state[r].classification = Some("predefined_answer")
                    \/ HasRun(r, "process_human_evaluation")
              \/ /\ position[r] = "error"
                 /\ ~IsNone(state[r].error_message)
        /\ position[r] = "await_human_evaluation"
           => state[r].classification = Some("real_answer") /\ state[r].llm_answer # <<>>
        /\ \A i, j \in 1..Len(history[r]) : history[r][i] = history[r][j] => i = j

\* r has been resumed and its one call of log_interaction met a storage fault
ResumeLogFailed(r) ==
    /\ HasRun(r, "process_human_evaluation")
    /\ Len(CallsOf(r, "log_interaction")) = 1
    /\ ~CallsOf(r, "log_interaction")[1].ok

\* C21: error_message is set only if no successful answer is held, except after a
\* resume whose log append failed: a request whose error_message is set either failed
\* in process_inputs, holds no answer and has run no later action, or has been resumed
\* with a real answer, its log append met a storage fault, and error_message is the
\* database error text.
C21_ErrorExcludesAnswerUnlessLogFails ==
    \A r \in Requests :
        ~IsNone(state[r].error_message)
        => \/ /\ state[r].outcome = Some("failure")
              /\ state[r].llm_answer = <<>>
              /\ ~state[r].is_real_answer
              /\ position[r] \in {"process_inputs", "error"}
           \/ /\ ResumeLogFailed(r)
              /\ state[r].is_real_answer
              /\ state[r].error_message = Some(DB_ERROR_MSG)

C21_Witness ==
    \E r, q \in Requests :
        /\ state[r].error_message = Some(DB_ERROR_MSG)
        /\ state[r].is_real_answer /\ state[r].llm_answer # <<>>
        /\ position[q] = "error" /\ ~IsNone(state[q].error_message)

\* C21 as stated: error_message and a real llm_answer never hold together.
C21_AsStated ==
    \A r \in Requests :
        ~(~IsNone(state[r].error_message) /\ state[r].is_real_answer)

\* the requests whose call of log_interaction succeeded
Logged == {r \in Requests : \E i \in 1..Len(calls[r]) :
                                calls[r][i].op = "log_interaction" /\ calls[r][i].ok}

\* C22: the interaction log is append-only with at most one entry per request: no
\* request has called log_interaction more than once, the table holds exactly the
\* entries of the successful calls, each once and as it was passed, and in the order
\* of their timestamps.
C22_LogAppendOnlyOnePerRequest ==
    /\ \A r \in Requests : Len(CallsOf(r, "log_interaction")) <= 1
    /\ Len(interactions) = Cardinality(Logged)
    /\ \A r \in Logged : RowsEqual(Get(CallsOf(r, "log_interaction")[1].entry)) = 1
    /\ \A i, j \in 1..Len(interactions) :
          i < j => interactions[i].timestamp < interactions[j].timestamp

C22_Witness ==
    \E r, q \in Requests :
        /\ Len(interactions) = 2
        /\ r # q /\ r \in Logged /\ q \in Logged
        /\ position[r] = "end" /\ position[q] = "end"
        /\ interactions[1] = Get(CallsOf(r, "log_interaction")[1].entry)
        /\ interactions[2] = Get(CallsOf(q, "log_interaction")[1].entry)

\* the row get_cached_answer read for r in check_cache
LookedUp(r) == Get(CallsOf(r, "get_cached_answer")[1].entry)

RunAfter(r, a) ==
    LET i == CHOOSE k \in 1..Len(history[r]) : history[r][k] = a
    IN  SubSeq(history[r], i + 1, Len(history[r]))

\* C24: a request classified predefined_answer runs, after classify_answer,
\* auto_log_and_terminate and then end and nothing else: it never runs
\* update_cache, await_human_evaluation or process_human_evaluation, is never
\* resumed with step inputs, and after end no action is left.
C24_PredefinedRunsStraightToEnd ==
    \A r \in Requests :
        state[r].classification = Some("predefined_answer")
        => /\ RunAfter(r, "classify_answer")
                 \in {<<>>, <<"auto_log_and_terminate">>, <<"auto_log_and_terminate", "end">>}
           /\ ~HasRun(r, "await_human_evaluation")
           /\ ~HasRun(r, "process_human_evaluation")
           /\ IsNone(step_inputs[r])
           /\ position[r] = "classify_answer"
              => NextAction(position[r], state[r]) = "auto_log_and_terminate"
           /\ position[r] = "auto_log_and_terminate"
              => NextAction(position[r], state[r]) = "end"
           /\ position[r] = "end" => NextAction(position[r], state[r]) = "none"

C24_Witness ==
    \E r \in Requests :
        /\ state[r].classification = Some("predefined_answer")
        /\ position[r] = "end"
        /\ RunAfter(r, "classify_answer") = <<"auto_log_and_terminate", "end">>

\* C25: a request not classified predefined_answer that has not run
\* process_human_evaluation has made no call of log_interaction, holds no
\* interaction_to_log, and every row of the interaction log is the entry of another
\* request; a request with a real answer that has called log_interaction made the
\* call in process_human_evaluation, after step inputs were supplied.
C25_NoEntryBeforeVerdict ==
    \A r \in Requests :
        /\ state[r].classification # Some("predefined_answer")
              /\ ~HasRun(r, "process_human_evaluation")
           => /\ Len(CallsOf(r, "log_interaction")) = 0
              /\ IsNone(state[r].interaction_to_log)
              /\ \A i \in 1..Len(interactions) :
                    \E q \in Logged \ {r} :
                        interactions[i] = Get(CallsOf(q, "log_interaction")[1].entry)
        /\ state[r].classification = Some("real_answer")
              /\ Len(CallsOf(r, "log_interaction")) > 0
           => /\ HasRun(r, "process_human_evaluation")
              /\ ~IsNone(step_inputs[r])
              /\ calls[r][Len(calls[r])].op = "log_interaction"

C25_Witness ==
    \E r, q \in Requests :
        /\ position[r] = "await_human_evaluation"
        /\ state[r].classification = Some("real_answer")
        /\ q \in Logged
        /\ interactions = <<Get(CallsOf(q, "log_interaction")[1].entry)>>

Steps(r, a) == position[r] # a /\ position'[r] = a

\* C27: check_cache reports a hit exactly when get_cached_answer returned a non-empty
\* string: its step sets hit to true, and llm_answer to the stored answer, if the
\* query met no fault and the table holds a row under the key whose answer is not
\* empty, and sets hit to false otherwise, after which the next action is
\* generate_answer; an empty llm_answer is classified real_answer and followed by
\* update_cache, whose put, if it meets no fault, stores the empty answer under the key.
C27_HitIffNonEmptyAnswer ==
    [][\A r \in Requests :
          /\ Steps(r, "check_cache")
             => LET got == calls'[r][Len(calls'[r])]
                    found == got.ok /\ ~IsNone(got.entry)
                             /\ Get(got.entry).llm_answer # <<>>
                IN  /\ got.op = "get_cached_answer"
                    /\ ~IsNone(got.entry)
                       => /\ Get(got.entry) \in interactions_cache
                          /\ Get(got.entry).cache_key = Get(state'[r].cache_key)
                    /\ IsNone(got.entry)
                       => \A row \in interactions_cache :
                             row.cache_key # Get(state'[r].cache_key)
                    /\ state'[r].hit = Some(found)
                    /\ found => state'[r].llm_answer = Get(got.entry).llm_answer
                    /\ ~found => /\ state'[r].llm_answer = state[r].llm_answer
                                 /\ NextAction("check_cache", state'[r]) = "generate_answer"
          /\ Steps(r, "classify_answer") /\ state[r].llm_answer = <<>>
             => /\ state'[r].classification = Some("real_answer")
                /\ NextAction("classify_answer", state'[r]) = "update_cache"
          /\ Steps(r, "update_cache") /\ state[r].llm_answer = <<>>
             => /\ calls'[r][Len(calls'[r])].op = "set_cached_answer"
                /\ Len(calls'[r]) = Len(calls[r]) + 1
                /\ calls'[r][Len(calls'[r])].ok
                   => [cache_key |-> Get(state[r].cache_key), llm_answer |-> <<>>,
                       created_at |-> clock'] \in interactions_cache'
      ]_vars

C27_Witness ==
    \E r, q \in Requests :
        /\ state[r].llm_answer = <<>>
        /\ state[r].classification = Some("real_answer")
        /\ Len(CallsOf(r, "set_cached_answer")) = 1 /\ CallsOf(r, "set_cached_answer")[1].ok
        /\ Len(CallsOf(q, "get_cached_answer")) = 1 /\ CallsOf(q, "get_cached_answer")[1].ok
        /\ ~IsNone(CallsOf(q, "get_cached_answer")[1].entry)
        /\ LookedUp(q).llm_answer = <<>>
        /\ LookedUp(q).cache_key = Get(state[r].cache_key)
        /\ state[q].hit = Some(FALSE)
        /\ Len(CallsOf(q, "get_answer")) = 1

\* C28: the InteractionLog entry built when a suspended request is resumed carries the
\* document names, the prompt and the answer that the workflow state holds (they are
\* not written after await_human_evaluation), whatever the step inputs of the resume
\* were.
C28_ResumeEntryCarriesStateFields ==
    \A r \in Requests :
        HasRun(r, "process_human_evaluation")
        => LET log_entry == Get(CallsOf(r, "log_interaction")[1].entry)
           IN  /\ log_entry.document_names = state[r].doc_names
               /\ log_entry.prompt = Get(state[r].prompt)
               /\ log_entry.answer = state[r].llm_answer

\* C29: evaluation_choice and evaluation_reason are non-null exactly for a request
\* that has run process_human_evaluation with a successful log append, and then they
\* are the choice and the reason of the step inputs as given; they are null for a
\* request that has run auto_log_and_terminate, for a request on the error path, and
\* for a resumed request whose log append failed.
C29_EvaluationFieldsOnlyAfterSuccessfulResume ==
    \A r \in Requests :
        LET resumed == HasRun(r, "process_human_evaluation") /\ r \in Logged
        IN  /\ resumed
               => /\ state[r].evaluation_choice = Some(Get(step_inputs[r]).evaluation_choice)
                  /\ state[r].evaluation_reason = Some(Get(step_inputs[r]).evaluation_reason)
            /\ ~resumed
               => IsNone(state[r].evaluation_choice) /\ IsNone(state[r].evaluation_reason)
            /\ HasRun(r, "auto_log_and_terminate") \/ HasRun(r, "error") \/ ResumeLogFailed(r)
               => ~resumed

C29_Witness ==
    \E r, q \in Requests :
        /\ state[r].evaluation_choice = Some(CHOICE_NO)
        /\ state[r].evaluation_reason = Some(REASON_GOOD)
        /\ ResumeLogFailed(q)
        /\ IsNone(state[q].evaluation_choice) /\ IsNone(state[q].evaluation_reason)

\* C30: await_human_evaluation changes nothing: its step leaves the workflow state
\* of every request, the cache table, the interaction log, the clock and the calls
\* made as they were and only records that it ran; and it is the one action after the
\* start at which the caller has to step in: step inputs are supplied to a request
\* only in the step from await_human_evaluation to process_human_evaluation.
C30_AwaitChangesNothing ==
    [][\A r \in Requests :
          /\ Steps(r, "await_human_evaluation")
             => /\ state' = state
                /\ interactions_cache' = interactions_cache
                /\ interactions' = interactions
                /\ clock' = clock
                /\ calls' = calls
                /\ raised' = raised
                /\ step_inputs' = step_inputs
                /\ history'[r] = Append(history[r], "await_human_evaluation")
                /\ NextAction("await_human_evaluation", state'[r]) = "process_human_evaluation"
          /\ step_inputs'[r] # step_inputs[r]
             => /\ position[r] = "await_human_evaluation"
                /\ position'[r] = "process_human_evaluation"
      ]_vars

C30_Witness ==
    \E r, q \in Requests :
        /\ position[r] = "await_human_evaluation"
        /\ IsNone(step_inputs[r])
        /\ \E row \in interactions_cache : row.cache_key = Get(state[r].cache_key)
        /\ ~IsNone(step_inputs[q]) /\ position[q] = "process_human_evaluation"

\* the step of r appends a call of log_interaction that met a storage fault
LogFails(r) ==
    /\ Len(calls'[r]) = Len(calls[r]) + 1
    /\ calls'[r][Len(calls'[r])].op = "log_interaction"
    /\ ~calls'[r][Len(calls'[r])].ok

\* C31: when the log append fails, the step of auto_log_and_terminate leaves the
\* workflow state of the request as it was, and the step of process_human_evaluation
\* changes only error_message, to the database error text; in both cases the
\* interaction log is unchanged and the next action is end; and no request calls
\* log_interaction a second time.
C31_FailedAppendLeavesRecordUnset ==
    [][\A r \in Requests :
          /\ LogFails(r)
             => /\ Steps(r, "auto_log_and_terminate") \/ Steps(r, "process_human_evaluation")
                /\ interactions' = interactions
                /\ interactions_cache' = interactions_cache
                /\ IsNone(state'[r].interaction_to_log)
                /\ IsNone(state'[r].evaluation_choice)
                /\ IsNone(state'[r].evaluation_reason)
                /\ NextAction(position'[r], state'[r]) = "end"
                /\ IsNone(raised'[r])
          /\ LogFails(r) /\ Steps(r, "auto_log_and_terminate")
             => state'[r] = state[r]
          /\ LogFails(r) /\ Steps(r, "process_human_evaluation")
             => state'[r] = [state[r] EXCEPT !.error_message = Some(DB_ERROR_MSG)]
          /\ calls'[r] # calls[r] /\ calls'[r][Len(calls'[r])].op = "log_interaction"
             => Len(CallsOf(r, "log_interaction")) = 0
      ]_vars

C31_Witness ==
    \E r, q \in Requests :
        /\ position[r] = "end" /\ HasRun(r, "auto_log_and_terminate")
        /\ ~CallsOf(r, "log_interaction")[1].ok
        /\ IsNone(state[r].interaction_to_log) /\ IsNone(state[r].error_message)
        /\ position[q] = "end" /\ ResumeLogFailed(q)
        /\ IsNone(state[q].interaction_to_log)
        /\ state[q].error_message = Some(DB_ERROR_MSG)
        /\ interactions = <<>>

\* C32: within one request the cache key is written once, by check_cache, as the
\* fingerprint of the request's extracted text, prompt and params, and no later step
\* changes it; the lookup of check_cache is made under that key; and a successful
\* put of update_cache writes its row under that key and touches no row of another
\* key.
C32_OneKeyPerRequest ==
    [][\A r \in Requests :
          /\ state'[r].cache_key # state[r].cache_key
             => /\ Steps(r, "check_cache")
                /\ IsNone(state[r].cache_key)
          /\ Steps(r, "check_cache")
             => LET got == calls'[r][Len(calls'[r])]
                    key == compute_cache_key(state[r].extracted_text, Get(state[r].prompt),
                                             state[r].llm_params)
                IN  /\ state'[r].cache_key = Some(key)
                    /\ got.op = "get_cached_answer"
                    /\ got.entry = IF \E row \in interactions_cache : row.cache_key = key
                                   THEN Some(CHOOSE row \in interactions_cache :
                                                 row.cache_key = key)
                                   ELSE None
          /\ Steps(r, "update_cache")
             => /\ state'[r].cache_key = state[r].cache_key
                /\ \A row \in interactions_cache' \ interactions_cache :
                      row.cache_key = Get(state[r].cache_key)
                /\ \A row \in interactions_cache \ interactions_cache' :
                      row.cache_key = Get(state[r].cache_key)
                /\ calls'[r] # calls[r] /\ calls'[r][Len(calls'[r])].ok
                   => \E row \in interactions_cache' :
                         row.cache_key = Get(state[r].cache_key) /\ row.created_at = clock'
      ]_vars

C32_Witness ==
    \E r \in Requests :
        /\ position[r] = "await_human_evaluation"
        /\ state[r].hit = Some(FALSE)
        /\ IsNone(CallsOf(r, "get_cached_answer")[1].entry)
        /\ CallsOf(r, "set_cached_answer")[1].ok
        /\ state[r].cache_key = Some(compute_cache_key(state[r].extracted_text,
                                                       Get(state[r].prompt),
                                                       state[r].llm_params))
        /\ \E row \in interactions_cache : row.cache_key = Get(state[r].cache_key)

\* the text process_files returned to r
Returned(r) == Get(CallsOf(r, "process_files")[1].entry).full_text

\* C33: after process_documents, extracted_text is the text process_files returned
\* if that has at most MAX_CONTEXT_CHARACTERS characters (here LowCeiling, the value of
\* the Config the application was built with) and otherwise its first
\* MAX_CONTEXT_CHARACTERS characters; its length never exceeds the ceiling; the cache
\* key is the fingerprint of this text, the prompt, the params and the model name;
\* and get_answer is called with this text as its context.
C33_TextTruncatedToCeiling ==
    \A r \in Requests :
        HasRun(r, "process_documents")
        => /\ Len(state[r].extracted_text) <= LowCeiling
           /\ Len(Returned(r)) <= LowCeiling => state[r].extracted_text = Returned(r)
           /\ Len(Returned(r)) > LowCeiling
              => state[r].extracted_text = [i \in 1..LowCeiling |-> Returned(r)[i]]
           /\ ~IsNone(state[r].cache_key)
              => Get(state[r].cache_key)
                    = [sha256_of |-> state[r].extracted_text \o Get(state[r].prompt)
                                         \o PARAMS_JSON \o LLM_MODEL_NAME]
           /\ \A i \in 1..Len(calls[r]) :
                 calls[r][i].op = "get_answer"
                 => Get(calls[r][i].entry).full_text_context = state[r].extracted_text

C33_Witness ==
    \E r, q \in Requests :
        /\ HasRun(r, "process_documents") /\ HasRun(q, "process_documents")
        /\ Returned(r) = LONG_TEXT
        /\ Len(state[r].extracted_text) = LowCeiling
        /\ Len(CallsOf(r, "get_answer")) = 1
        /\ Returned(q) = EXTRACTED_TEXT_SPACED
        /\ state[q].extracted_text # Returned(q)
        /\ ~IsNone(state[q].cache_key)

\* the InteractionLog entries the engine built for request r
EngineEntries(r) ==
    {Get(calls[r][i].entry) : i \in {k \in 1..Len(calls[r]) : calls[r][k].op = "log_interaction"}}

\* the InteractionLog entries the handlers of UI session r built
UiEntries(r) ==
    {Get(ui[r].calls[i].entry) :
        i \in {k \in 1..Len(ui[r].calls) : ui[r].calls[k].op = "log_interaction"}}

\* C34: every log entry the engine builds, in auto_log_and_terminate and in
\* process_human_evaluation, carries the temperature and top_p of the llm_params the
\* request was started with, and every log entry the UI handlers build, in
\* _handle_investigation and in _handle_evaluation, carries the temperature and top_p
\* submit_btn.click passed; model_name is the configured model name in all of them.
C34_LoggedParamsAreTheRequestParams ==
    \A r \in Requests :
        /\ \A log_entry \in EngineEntries(r) :
              /\ state[r].llm_params \in UiParams
              /\ log_entry.temperature = DictGet(state[r].llm_params, KEY_TEMPERATURE)
              /\ log_entry.top_p = DictGet(state[r].llm_params, KEY_TOP_P)
              /\ log_entry.model_name = LLM_MODEL_NAME
        /\ \A log_entry \in UiEntries(r) :
              /\ log_entry.temperature = Get(ui[r].inputs).temperature
              /\ log_entry.top_p = Get(ui[r].inputs).top_p
              /\ log_entry.model_name = LLM_MODEL_NAME

C34_Witness ==
    \E r \in Requests :
        /\ HasRun(r, "process_human_evaluation")
        /\ \E log_entry \in EngineEntries(r) :
              log_entry.temperature = 55 /\ log_entry.top_p = 65
        /\ ui[r].handled = <<"_handle_investigation", "_handle_evaluation">>
        /\ \E log_entry \in UiEntries(r) :
              log_entry.temperature = 55 /\ log_entry.top_p = 65

\* the names build_application binds in with_actions
ActionNames ==
    {"process_inputs", "process_documents", "check_cache", "generate_answer",
     "update_cache", "classify_answer", "auto_log_and_terminate",
     "await_human_evaluation", "process_human_evaluation", "error", "end"}

\* the two actions bound to terminal_state
TerminalActions == {"error", "end"}

\* C35: a request whose last action is error or end has no next action, and no later
\* step of the system changes its workflow state, its position, the actions it ran or
\* the collaborator calls it made (every cache write and log append of a request is
\* one of its calls), so the cache and the log are not written by it again.
C35_TerminalStatesAreAbsorbing ==
    /\ [](\A r \in Requests :
             position[r] \in TerminalActions =>
                 /\ NextAction(position[r], state[r]) = "none"
                 /\ \A a \in ActionNames : ~Runs(r, a))
    /\ [][\A r \in Requests :
             position[r] \in TerminalActions =>
                 /\ state'[r] = state[r]
                 /\ position'[r] = position[r]
                 /\ history'[r] = history[r]
                 /\ calls'[r] = calls[r]
                 /\ step_inputs'[r] = step_inputs[r]
                 /\ raised'[r] = raised[r]]_vars

C35_Witness ==
    \E r, q \in Requests :
        /\ position[r] = "end"
        /\ position[q] = "error"
        /\ \E i \in 1..Len(calls[r]) : calls[r][i].op = "log_interaction" /\ calls[r][i].ok
        /\ Len(interactions) > 0

\* the fields of a log entry that the request determines: all but the timestamp
Content(log_entry) ==
    [document_names |-> log_entry.document_names, prompt |-> log_entry.prompt,
     answer |-> log_entry.answer, output_passed |-> log_entry.output_passed,
     eval_reason |-> log_entry.eval_reason, model_name |-> log_entry.model_name,
     temperature |-> log_entry.temperature, top_p |-> log_entry.top_p]

\* the calls UI session r made of collaborator method op
UiCallsOf(r, op) == SelectSeq(ui[r].calls, LAMBDA c : c.op = op)

\* UI session r got an answer from get_answer; the engine got one for request r
UiAnswered(r) == Len(UiCallsOf(r, "get_answer")) = 1
EngineAnswered(r) == HasRun(r, "generate_answer") /\ IsNone(raised[r])

\* the UI session and the engine request r were given the same supported document,
\* the same non-blank prompt and the same params, the cache had no entry for the key,
\* and process_files and get_answer returned the same to both
SameRequest(r) ==
    /\ UiAnswered(r) /\ EngineAnswered(r)
    /\ state[r].files = Some(Get(ui[r].inputs).files)
    /\ Len(Get(ui[r].inputs).files) >= 1
    /\ IsNone(validate_files(Get(ui[r].inputs).files))
    /\ state[r].prompt = Some(Get(ui[r].inputs).prompt)
    /\ Strip(Get(ui[r].inputs).prompt) # <<>>
    /\ DictGet(state[r].llm_params, KEY_TEMPERATURE) = Get(ui[r].inputs).temperature
    /\ DictGet(state[r].llm_params, KEY_TOP_P) = Get(ui[r].inputs).top_p
    /\ state[r].hit = Some(FALSE)
    /\ Get(CallsOf(r, "process_files")[1].entry).full_text
          = Get(UiCallsOf(r, "process_files")[1].entry).full_text
    /\ state[r].llm_answer = Get(UiCallsOf(r, "get_answer")[1].entry).returned

\* what _handle_investigation of session r did with the answer: it logged it itself,
\* or it stored it for the evaluation (state_temperature is kept from then on)
UiAutoLogged(r) ==
    /\ ui[r].handled = <<"_handle_investigation">>
    /\ Len(UiCallsOf(r, "log_interaction")) = 1
UiWaited(r) == ~IsNone(ui[r].state_temperature)

\* the evaluations session r submitted with a verdict selected, and the entry built
\* for the k-th of them
UiVerdicts(r) == SelectSeq(ui[r].submissions, LAMBDA s : ~IsNone(s.choice))
UiVerdictEntry(r, k) == Get(UiCallsOf(r, "log_interaction")[k].entry)

\* C36: when a UI session and an engine request were given the same supported
\* document, the same non-blank prompt and the same params, the cache had no entry
\* and the collaborators returned the same text and the same answer, then the engine
\* classifies the answer as real exactly when _handle_investigation stored it for the
\* evaluation, the engine auto-logs exactly when _handle_investigation logged the
\* answer itself, the two auto-log entries agree in every field but the timestamp,
\* and so do the entry of process_human_evaluation and the entry of a UI evaluation
\* submitted with the same verdict and the same reason.
C36_UiAndEngineAgree ==
    \A r \in UiSessions :
        SameRequest(r) =>
            /\ HasRun(r, "classify_answer") =>
                  /\ state[r].classification = Some("real_answer") <=> UiWaited(r)
                  /\ state[r].classification = Some("predefined_answer") <=> UiAutoLogged(r)
            /\ HasRun(r, "auto_log_and_terminate") =>
                  /\ UiAutoLogged(r) /\ ~UiWaited(r)
                  /\ Content(Get(CallsOf(r, "log_interaction")[1].entry))
                        = Content(UiVerdictEntry(r, 1))
            /\ HasRun(r, "await_human_evaluation") => UiWaited(r) /\ ~UiAutoLogged(r)
            /\ HasRun(r, "process_human_evaluation") =>
                  \A k \in 1..Len(UiVerdicts(r)) :
                      /\ UiVerdicts(r)[k].choice
                            = Some(Get(step_inputs[r]).evaluation_choice)
                      /\ UiVerdicts(r)[k].eval_reason
                            = Get(step_inputs[r]).evaluation_reason
                      => Content(Get(CallsOf(r, "log_interaction")[1].entry))
                            = Content(UiVerdictEntry(r, k))

\* both ran the same request with a real answer and built an entry for the same
\* verdict, given with a reason that is stripped
C36_Witness ==
    \E r \in UiSessions :
        /\ SameRequest(r)
        /\ HasRun(r, "process_human_evaluation")
        /\ Len(UiVerdicts(r)) >= 1
        /\ UiVerdicts(r)[1].choice = Some(CHOICE_YES)
        /\ UiVerdicts(r)[1].eval_reason = REASON_GOOD
        /\ Get(step_inputs[r]).evaluation_choice = CHOICE_YES
        /\ Get(step_inputs[r]).evaluation_reason = REASON_GOOD
        /\ Content(UiVerdictEntry(r, 1)).temperature = 55
        /\ Content(UiVerdictEntry(r, 1)).output_passed = "yes"

\* session r submits an evaluation in this step
Submits(r) == Len(ui'[r].submissions) = Len(ui[r].submissions) + 1

\* the document names, prompt and answer a session stores for the evaluation
Stored(session) ==
    <<session.state_doc_names, session.state_last_prompt, session.state_last_answer>>

\* C37: every evaluation submitted for a presented answer, whatever was submitted
\* before it, does one of three things. Without a verdict selected it makes no log
\* call, leaves the log and the stored values as they are and the panel open. With a
\* verdict it makes exactly one log call; when the append fails the log is unchanged,
\* the stored document names, prompt and answer are kept and the panel stays open,
\* so the evaluation can be submitted again; when the append succeeds, which it does
\* at most once in a session, its entry is the one row added to the log, the three
\* stored values are cleared and the panel is closed.
C37_EvaluationSubmissions ==
    [][\A r \in UiSessions :
          Submits(r) =>
              LET submitted == ui'[r].submissions[Len(ui'[r].submissions)]
                  made == SubSeq(ui'[r].calls, Len(ui[r].calls) + 1, Len(ui'[r].calls))
              IN  /\ \A i \in 1..3 : ~IsNone(Stored(ui[r])[i])
                  /\ IsNone(submitted.choice) =>
                        /\ made = <<>>
                        /\ interactions' = interactions
                        /\ ui'[r].evaluation_panel
                        /\ Stored(ui'[r]) = Stored(ui[r])
                  /\ ~IsNone(submitted.choice) =>
                        /\ Len(made) = 1
                        /\ made[1].op = "log_interaction"
                        /\ ~made[1].ok =>
                              /\ interactions' = interactions
                              /\ ui'[r].evaluation_panel
                              /\ Stored(ui'[r]) = Stored(ui[r])
                        /\ made[1].ok =>
                              /\ interactions' = Append(interactions, Get(made[1].entry))
                              /\ ~ui'[r].evaluation_panel
                              /\ Stored(ui'[r]) = <<None, None, None>>
                              /\ \A i \in 1..Len(ui[r].calls) :
                                    ui[r].calls[i].op = "log_interaction"
                                       => ~ui[r].calls[i].ok]_vars

\* a session whose first evaluation met a failing append and whose second, submitted
\* again from the kept values, was logged
C37_Witness ==
    \E r \in UiSessions :
        /\ Len(ui[r].submissions) = 2
        /\ Len(UiCallsOf(r, "log_interaction")) = 2
        /\ ~UiCallsOf(r, "log_interaction")[1].ok
        /\ UiCallsOf(r, "log_interaction")[2].ok
        /\ Content(UiVerdictEntry(r, 2)).document_names
              = Content(UiVerdictEntry(r, 1)).document_names
        /\ Stored(ui[r]) = <<None, None, None>>
        /\ ~ui[r].evaluation_panel

\* a session whose first evaluation had no verdict selected and whose second was logged
C37_WitnessNoVerdict ==
    \E r \in UiSessions :
        /\ Len(ui[r].submissions) = 2
        /\ IsNone(ui[r].submissions[1].choice)
        /\ Len(UiCallsOf(r, "log_interaction")) = 1
        /\ UiCallsOf(r, "log_interaction")[1].ok

====
